---- MODULE Spec2Model ----
(***************************************************************************)
(* Request dispatch pipeline of the MCP TypeScript server:                 *)
(*   - MiddlewareManager.execute and the middleware stages                  *)
(*     (src/middleware/index.ts),                                          *)
(*   - the four request handlers of MCPTypeScriptServer (src/server.ts),   *)
(*   - HealthChecker (src/health.ts) and the start/stop of the process,    *)
(*   - FileManagerTool path validation (src/tools/fileManager.ts),         *)
(*   - LRUCache (src/utils/cache.ts).                                      *)
(* Tasks are JavaScript async functions: a task runs without interruption  *)
(* up to its next await, so one action below is one such run.              *)
(***************************************************************************)
EXTENDS Integers, Sequences, FiniteSets, TLC

VARIABLES
    middlewares,          \* MiddlewareManager.middlewares, in use() order
    requestsPerMinute,    \* config security.rateLimitRpm, closed over by the rate-limit stage
    requests,             \* Map<string, number[]> of the rate-limit stage
    tools,                \* MCPTypeScriptServer.tools, in insertion order
    resources,            \* keys of MCPTypeScriptServer.resources
    now,                  \* Date.now()
    ticks,                \* number of clock advances so far
    reqs,                 \* the requests being served by setRequestHandler callbacks
    received,             \* number of requests received so far
    checks,               \* history: every admission check, in execution order
    healthCheckInterval,  \* HealthChecker.healthCheckInterval (0 = undefined)
    timers,               \* interval timers that are active in the runtime
    nextTimer,            \* next handle setInterval will return
    heapUsed,             \* process.memoryUsage().heapUsed
    globalGc,             \* whether the runtime exposes global.gc
    health,               \* history of the HealthChecker calls and ticks
    proc,                 \* the node process: starting, running or exited
    files,                \* history of the FileManagerTool operations
    cache,                \* LRUCache.cache: the entries in Map insertion order
    maxSize,              \* LRUCache.maxSize
    ttl,                  \* LRUCache.ttl
    cacheLog,             \* the last LRUCache call and what it returned
    logs,                 \* Logger.logs
    maxLogs,              \* Logger.maxLogs
    logged,               \* history: every entry ever logged, in order
    logOut,               \* the last getRecentLogs call and what it returned
    config,               \* ConfigManager.config
    objectPrototype,      \* the properties added to Object.prototype
    configLog,            \* the ConfigManager calls so far and the last one
    apiKey,               \* the apiKey authenticationMiddleware was built with
    MCP_API_KEY           \* process.env.MCP_API_KEY

pipeVars == <<middlewares, requestsPerMinute, requests, tools, resources,
              now, ticks, reqs, received, checks>>
healthVars == <<healthCheckInterval, timers, nextTimer, heapUsed, globalGc,
                health>>
lifeVars == <<proc>>
fileVars == <<files>>
cacheVars == <<cache, maxSize, ttl, cacheLog>>
logVars == <<logs, maxLogs, logged, logOut>>
configVars == <<config, objectPrototype, configLog>>
authVars == <<apiKey, MCP_API_KEY>>
auxVars == <<proc, files, cache, maxSize, ttl, cacheLog, logs, maxLogs, logged,
             logOut, config, objectPrototype, configLog, apiKey, MCP_API_KEY>>
vars == <<middlewares, requestsPerMinute, requests, tools, resources, now,
          ticks, reqs, received, checks, healthCheckInterval, timers, nextTimer,
          heapUsed, globalGc, health, proc, files, cache, maxSize, ttl, cacheLog, logs,
          maxLogs, logged, logOut, config, objectPrototype, configLog,
          apiKey, MCP_API_KEY>>

----------------------------------------------------------------------------
(* Bounds *)

MaxRequests == 2
MaxRateRequests == 3
MaxInFlight == 2
MaxCeiling == 2
MaxTicks == 2
MaxStages == 2
MaxHealthOps == 5
MaxFileOps == 2
MaxCacheSize == 2
MaxLogs == 2
MaxLogCalls == 4
MaxConfigOps == 3

(* Program constants *)

WindowMs == 60000
Clients == {"default"}
clientId == "default"

\* The peers a request can come from.  The MiddlewareContext carries no
\* client identity, so no stage can read it.
Callers == {"A", "B"}

Slots == 1..MaxInFlight
Deltas == {1, WindowMs - 1}

Methods == {"tools/list", "tools/call", "resources/list", "resources/read"}
ToolNames == {"calculate", "read_file", "write_file", "list_directory",
              "file_operations", "unknown_tool"}
\* A registered uri and one that is not registered; the handler treats the
\* three registered uris alike.
Uris == {"config://server.json", "missing://resource"}

----------------------------------------------------------------------------
(* Values *)

NoVal == [k |-> "none"]
Ok(v) == [k |-> "ok", v |-> v]
Err(message) == [k |-> "err", message |-> message]

TextPart(text) == [type |-> "text", text |-> text]

\* ToolResult whose isError is left out is modelled with isError = FALSE.
ToolResult(text, isError) == [content |-> <<TextPart(text)>>, isError |-> isError]

\* Sequence membership.
Range(s) == {s[i] : i \in 1..Len(s)}

----------------------------------------------------------------------------
(* Tool registry and tool handlers *)

\* Variant: of the file manager's three names only read_file is registered.
initializeToolsPartial(calculatorEnabled, fileManagerEnabled) ==
    (IF calculatorEnabled
        THEN <<[name |-> "calculate", tool |-> "CalculatorTool"]>>
        ELSE <<>>)
    \o
    (IF fileManagerEnabled
        THEN <<[name |-> "read_file", tool |-> "FileManagerTool"]>>
        ELSE <<>>)

\* initializeTools: the bindings in insertion order.
initializeTools(calculatorEnabled, fileManagerEnabled) ==
    (IF calculatorEnabled
        THEN <<[name |-> "calculate", tool |-> "CalculatorTool"]>>
        ELSE <<>>)
    \o
    (IF fileManagerEnabled
        THEN <<[name |-> "read_file", tool |-> "FileManagerTool"],
               [name |-> "write_file", tool |-> "FileManagerTool"],
               [name |-> "list_directory", tool |-> "FileManagerTool"]>>
        ELSE <<>>)

\* initializeResources: the three sample resources.
initializeResources ==
    {"config://server.json", "logs://recent.txt", "health://status.json"}

\* Map.has / Map.get on this.tools.
toolsHas(name) == \E i \in 1..Len(tools) : tools[i].name = name
toolsGet(name) == (CHOOSE b \in Range(tools) : b.name = name).tool

\* getDefinition().name of each tool class.
getDefinition(tool) ==
    CASE tool = "CalculatorTool" -> "calculate"
      [] tool = "MyCustomTool"   -> "my_tool"
      [] OTHER                   -> "file_operations"

\* The binding the README's "Adding New Tools" adds at the end of
\* initializeTools: this.tools.set('my_tool', myTool).
addedTool == [name |-> "my_tool", tool |-> "MyCustomTool"]

\* Variant: the case labels of read_file and write_file fall through to one
\* call.
toolMethodFallThrough(name) ==
    CASE name = "calculate"      -> "calculate"
      [] name = "read_file"      -> "readFile"
      [] name = "write_file"     -> "readFile"
      [] name = "list_directory" -> "listDirectory"
      [] OTHER                   -> ""

\* The method the switch in the tools/call handler selects ("" : default branch).
toolMethod(name) ==
    CASE name = "calculate"      -> "calculate"
      [] name = "read_file"      -> "readFile"
      [] name = "write_file"     -> "writeFile"
      [] name = "list_directory" -> "listDirectory"
      [] OTHER                   -> ""

\* What a tool operation can settle with.  Every operation catches its own
\* failures and returns a ToolResult with isError; the file operations read
\* args.path again inside their catch block, which raises a TypeError when the
\* request carried no arguments.
ToolOutcomes(op) ==
    {[k |-> "ok", v |-> ToolResult(<<"done: ", op>>, FALSE)],
     [k |-> "ok", v |-> ToolResult(<<"Error ", op, ": failed">>, TRUE)]}
    \cup
    (IF op = "calculate"
        THEN {}
        ELSE {Err(<<"Cannot read properties of undefined (reading 'path')">>)})

\* What the operation settles with for the arguments it was called with.
\* Without arguments the destructuring inside the try block fails: calculate
\* returns its error result, a file operation raises from its catch block.
ToolSettles(op, args) ==
    {o \in ToolOutcomes(op) :
        IF args = "undefined"
        THEN IF op = "calculate" THEN o.k = "ok" /\ o.v.isError ELSE o.k = "err"
        ELSE o.k = "ok"}

----------------------------------------------------------------------------
(* Terminal handlers of the four request methods (setupHandlers) *)

\* Variant: the catch block throws the failure on.
toolCallRethrow(message) == Err(message)

\* Variant: the catch block leaves isError out of the Result it builds.
toolCallCatchNoFlag(message) == Ok(ToolResult(<<"Error: ">> \o message, FALSE))

\* catch block of the tools/call handler: the failure becomes an error Result.
toolCallCatch(message) == Ok(ToolResult(<<"Error: ">> \o message, TRUE))

\* The handler after "await tool.<method>(args)" has settled with outcome o.
toolCallSettle(o) ==
    IF o.k = "ok" THEN Ok(o.v) ELSE toolCallCatch(o.message)

listToolsHandler(w) ==
    [w EXCEPT !.q.st = "settled",
              !.q.trace = Append(@, "handler"),
              !.q.val = Ok([tools |->
                  [i \in 1..Len(tools) |-> getDefinition(tools[i].tool)]])]

\* Variant: the lookup of the tool stands before the try block, so that
\* "not found" is raised and not caught.
callToolHandlerLookupOutside(w) ==
    LET name == w.q.name
        w1 == [w EXCEPT !.q.trace = Append(@, "handler")]
    IN  IF ~toolsHas(name)
        THEN [w1 EXCEPT !.q.st = "settled",
                        !.q.val = Err(<<"Tool '", name, "' not found">>)]
        ELSE IF toolMethod(name) = ""
        THEN [w1 EXCEPT !.q.st = "settled",
                        !.q.val = toolCallCatch(<<"Unknown tool method: ", name>>)]
        ELSE [w1 EXCEPT !.q.st = "awaitTool",
                        !.q.tool = toolsGet(name),
                        !.q.op = toolMethod(name),
                        !.q.opArgs = w.q.args,
                        !.q.trace = Append(@, toolMethod(name))]

callToolHandler(w) ==
    LET name == w.q.name
        w1 == [w EXCEPT !.q.trace = Append(@, "handler")]
    IN  IF ~toolsHas(name)
        THEN [w1 EXCEPT !.q.st = "settled",
                        !.q.val = toolCallCatch(<<"Tool '", name, "' not found">>)]
        ELSE IF toolMethod(name) = ""
        THEN [w1 EXCEPT !.q.st = "settled",
                        !.q.val = toolCallCatch(<<"Unknown tool method: ", name>>)]
        ELSE [w1 EXCEPT !.q.st = "awaitTool",
                        !.q.tool = toolsGet(name),
                        !.q.op = toolMethod(name),
                        !.q.opArgs = w.q.args,
                        !.q.trace = Append(@, toolMethod(name))]

listResourcesHandler(w) ==
    [w EXCEPT !.q.st = "settled",
              !.q.trace = Append(@, "handler"),
              !.q.val = Ok([resources |-> resources])]

readResourceHandler(w) ==
    LET uri == w.q.name
        w1 == [w EXCEPT !.q.st = "settled", !.q.trace = Append(@, "handler")]
    IN  IF uri \notin resources
        THEN [w1 EXCEPT !.q.val = Err(<<"Resource not found: ", uri>>)]
        ELSE [w1 EXCEPT !.q.val = Ok([contents |-> <<[uri |-> uri]>>])]

handler(w) ==
    CASE w.q.method = "tools/list"     -> listToolsHandler(w)
      [] w.q.method = "tools/call"     -> callToolHandler(w)
      [] w.q.method = "resources/list" -> listResourcesHandler(w)
      [] OTHER                         -> readResourceHandler(w)

----------------------------------------------------------------------------
(* Middleware stages and MiddlewareManager.execute *)

MapSet(m, key, v) ==
    [c \in DOMAIN m \cup {key} |-> IF c = key THEN v ELSE m[c]]

\* Variant: the filter drops one millisecond too many.
recentRequestsShortWindow(clientRequests, windowStart) ==
    SelectSeq(clientRequests, LAMBDA time : time > windowStart + 1)

\* Variant: the filter keeps every entry.
recentRequestsKeepsAll(clientRequests, windowStart) ==
    SelectSeq(clientRequests, LAMBDA time : TRUE)

\* clientRequests.filter(time => time > windowStart)
recentRequests(clientRequests, windowStart) ==
    SelectSeq(clientRequests, LAMBDA time : time > windowStart)

\* Variant: a ceiling of 0 is taken as "no limit".
limitReachedZeroUnlimited(recent, rpm) == rpm > 0 /\ Len(recent) >= rpm

\* Variant: the comparison is > instead of >=.
limitReachedOffByOne(recent, rpm) == Len(recent) > rpm

\* recentRequests.length >= requestsPerMinute
limitReached(recent, rpm) == Len(recent) >= rpm

RECURSIVE next(_)

\* Logs the start, calls next() and awaits it.
loggingMiddleware(w) ==
    next([w EXCEPT !.q.trace = Append(@, "Starting"),
                   !.q.stack = Append(@, "logging")])

\* Variant: the continuation logs the completion and forgets "return result".
loggingSettleDropsResult(w) ==
    [w EXCEPT !.q.trace = Append(@, IF w.q.val.k = "ok" THEN "Completed" ELSE "Failed"),
              !.q.val = IF w.q.val.k = "ok" THEN Ok([undefined |-> TRUE]) ELSE @,
              !.q.stack = SubSeq(@, 1, Len(@) - 1)]

\* Variant: the catch block logs the failure and forgets "throw error".
loggingSettleSwallows(w) ==
    [w EXCEPT !.q.trace = Append(@, IF w.q.val.k = "ok" THEN "Completed" ELSE "Failed"),
              !.q.val = IF w.q.val.k = "ok" THEN @ ELSE Ok([undefined |-> TRUE]),
              !.q.stack = SubSeq(@, 1, Len(@) - 1)]

\* The continuation of loggingMiddleware once "await next()" has settled:
\* logs the completion and returns the result, or logs the failure and
\* throws the same error.
loggingSettle(w) ==
    [w EXCEPT !.q.trace = Append(@, IF w.q.val.k = "ok" THEN "Completed" ELSE "Failed"),
              !.q.stack = SubSeq(@, 1, Len(@) - 1)]

\* A stage registered by use() that calls its continuation again once the
\* first call has settled: "await next(); return next();".
repeatMiddleware(w) ==
    next([w EXCEPT !.q.trace = Append(@, "repeat"),
                   !.q.stack = Append(@, "repeat")])

\* The continuation of repeatMiddleware once "await next()" has settled: the
\* failure is thrown on, or next() is called again.  The closure reads the
\* one variable "index" of the execute call, as it stands by then.
repeatSettle(w) ==
    LET popped == [w EXCEPT !.q.stack = SubSeq(@, 1, Len(@) - 1)]
    IN  IF w.q.val.k = "err"
        THEN popped
        ELSE next([popped EXCEPT !.q.st = "running",
                                 !.q.trace = Append(@, "repeat:again")])

\* Variant: the timestamps are kept per request method.
rateLimitMiddlewarePerMethod(w) ==
    LET windowStart == now - WindowMs
        key == w.q.method
        m0 == IF key \in DOMAIN w.requests
                 THEN w.requests
                 ELSE MapSet(w.requests, key, <<>>)
        recent == recentRequests(m0[key], windowStart)
        m1 == MapSet(m0, key, recent)
    IN  IF limitReached(recent, requestsPerMinute)
        THEN [w EXCEPT !.requests = m1,
                       !.checks = Append(@, [time |-> now, admitted |-> FALSE,
                                             client |-> w.q.client]),
                       !.q.trace = Append(@, "rateLimit:rejected"),
                       !.q.st = "settled",
                       !.q.val = Err(<<"Rate limit exceeded">>)]
        ELSE next([w EXCEPT !.requests = MapSet(m1, key, Append(recent, now)),
                            !.checks = Append(@, [time |-> now, admitted |-> TRUE,
                                                  client |-> w.q.client]),
                            !.q.trace = Append(@, "rateLimit:admitted")])

\* Variant: the stage logs the rejection and calls next() all the same.
rateLimitMiddlewareFailOpen(w) ==
    LET windowStart == now - WindowMs
        m0 == IF clientId \in DOMAIN w.requests
                 THEN w.requests
                 ELSE MapSet(w.requests, clientId, <<>>)
        recent == recentRequests(m0[clientId], windowStart)
        m1 == MapSet(m0, clientId, recent)
    IN  IF limitReached(recent, requestsPerMinute)
        THEN next([w EXCEPT !.requests = m1,
                            !.checks = Append(@, [time |-> now, admitted |-> FALSE,
                                                  client |-> w.q.client]),
                            !.q.trace = Append(@, "rateLimit:rejected")])
        ELSE next([w EXCEPT !.requests = MapSet(m1, clientId, Append(recent, now)),
                            !.checks = Append(@, [time |-> now, admitted |-> TRUE,
                                                  client |-> w.q.client]),
                            !.q.trace = Append(@, "rateLimit:admitted")])

\* Prune, count, then throw or record and call next(); no await in between.
rateLimitMiddleware(w) ==
    LET windowStart == now - WindowMs
        m0 == IF clientId \in DOMAIN w.requests
                 THEN w.requests
                 ELSE MapSet(w.requests, clientId, <<>>)
        recent == recentRequests(m0[clientId], windowStart)
        m1 == MapSet(m0, clientId, recent)
    IN  IF limitReached(recent, requestsPerMinute)
        THEN [w EXCEPT !.requests = m1,
                       !.checks = Append(@, [time |-> now, admitted |-> FALSE,
                                             client |-> w.q.client]),
                       !.q.trace = Append(@, "rateLimit:rejected"),
                       !.q.st = "settled",
                       !.q.val = Err(<<"Rate limit exceeded">>)]
        ELSE next([w EXCEPT !.requests = MapSet(m1, clientId, Append(recent, now)),
                            !.checks = Append(@, [time |-> now, admitted |-> TRUE,
                                                  client |-> w.q.client]),
                            !.q.trace = Append(@, "rateLimit:admitted")])

validationMiddleware(w) ==
    LET w1 == [w EXCEPT !.q.trace = Append(@, "validation")]
    IN  IF ~w.q.params
        THEN [w1 EXCEPT !.q.st = "settled",
                        !.q.val = Err(<<"Missing parameters">>)]
        ELSE next(w1)

\* The truth value JavaScript gives a string that may be undefined.
truthy(x) == x.t = "string" /\ x.v # ""

\* if (apiKey && process.env.MCP_API_KEY) { if (apiKey !== ...) throw }
\* return next();
authenticationMiddleware(w) ==
    IF truthy(apiKey) /\ truthy(MCP_API_KEY) /\ apiKey # MCP_API_KEY
    THEN [w EXCEPT !.q.trace = Append(@, "authentication:rejected"),
                   !.q.st = "settled",
                   !.q.val = Err(<<"Unauthorized: Invalid API key">>)]
    ELSE next([w EXCEPT !.q.trace = Append(@, "authentication:passed")])

\* A stage that returns a value of its own and never calls next().
shortCircuitMiddleware(w) ==
    [w EXCEPT !.q.trace = Append(@, "shortCircuit"),
              !.q.st = "settled",
              !.q.val = Ok([stage |-> "shortCircuit"])]

\* Variant: the call of the stage is wrapped in a try/catch that swallows a
\* failure the stage throws.
middlewareCaught(kind, w) ==
    LET w1 == CASE kind = "logging"    -> loggingMiddleware(w)
                [] kind = "rateLimit"  -> rateLimitMiddleware(w)
                [] kind = "validation" -> validationMiddleware(w)
                [] kind = "repeat"     -> repeatMiddleware(w)
                [] kind = "authentication" -> authenticationMiddleware(w)
                [] OTHER               -> shortCircuitMiddleware(w)
    IN  IF w1.q.st = "settled" /\ w1.q.val.k = "err"
        THEN [w1 EXCEPT !.q.val = Ok([undefined |-> TRUE])]
        ELSE w1

middleware(kind, w) ==
    CASE kind = "logging"    -> loggingMiddleware(w)
      [] kind = "rateLimit"  -> rateLimitMiddleware(w)
      [] kind = "validation" -> validationMiddleware(w)
      [] kind = "repeat"     -> repeatMiddleware(w)
      [] kind = "authentication" -> authenticationMiddleware(w)
      [] OTHER               -> shortCircuitMiddleware(w)

\* Variant: the stages are taken from the end of the array.
nextReversed(w) ==
    IF w.q.index >= Len(middlewares)
    THEN handler(w)
    ELSE middleware(middlewares[Len(middlewares) - w.q.index],
                    [w EXCEPT !.q.index = @ + 1])

\* Variant: "index" is a field of the manager, shared by the execute calls in
\* flight, and is not reset by a new call.
nextSharedCursor(w) ==
    LET others == {reqs[r].index : r \in {x \in Slots : reqs[x].st # "free"}}
        index == CHOOSE i \in others \cup {w.q.index} :
                     \A j \in others \cup {w.q.index} : j <= i
    IN  IF index >= Len(middlewares)
        THEN handler([w EXCEPT !.q.index = index])
        ELSE middleware(middlewares[index + 1],
                        [w EXCEPT !.q.index = index + 1])

\* The closure "next" of execute; w.q.index is the variable "index"
\* (0-based as in the source).
next(w) ==
    IF w.q.index >= Len(middlewares)
    THEN handler(w)
    ELSE middleware(middlewares[w.q.index + 1],
                    [w EXCEPT !.q.index = @ + 1])

\* Variant: execute calls the terminal handler itself once the chain returned.
executeThenHandler(w) == handler(next(w))

execute(w) == next(w)

----------------------------------------------------------------------------
(* Requests in flight *)

FreeReq ==
    [st |-> "free", method |-> "", name |-> "", params |-> FALSE,
     args |-> "undefined", client |-> "", index |-> 0,
     stack |-> <<>>, val |-> NoVal, trace |-> <<>>, tool |-> "", op |-> "",
     opArgs |-> "", produced |-> NoVal, out |-> NoVal]

\* request.params.arguments: left out, or an object.
Arguments == {"undefined", "args"}

\* The inputs a request of each method carries: the tool name or the uri,
\* whether request.params is present (no stage of the server's chain reads
\* it), the arguments of a tools/call, and the peer that sent the request.
\* The arguments are only logged unless the name is one the switch routes, so
\* they are varied for those names.
Inputs(method) ==
    CASE method = "tools/call"     ->
             {in \in {<<n, TRUE, a, "A">> : n \in ToolNames, a \in Arguments} :
                 toolMethod(in[1]) # "" \/ in[3] = "args"}
      [] method = "resources/read" -> {<<u, TRUE, "undefined", "A">> : u \in Uris}
      [] OTHER                     -> {<<"", TRUE, "undefined", "A">>}

\* What the promise returned by the setRequestHandler callback settles with:
\* the callback returns middleware.execute(...) as it is.
requestHandlerSettle(val) ==
    IF val.k = "ok"
    THEN [k |-> "result", v |-> val.v]
    ELSE [k |-> "raised", message |-> val.message]

\* Once no stage awaits any more, the promise of execute is settled, and it
\* is the promise the callback returned.
Finish(q) ==
    IF q.st = "settled" /\ q.stack = <<>>
    THEN [q EXCEPT !.st = "done", !.out = requestHandlerSettle(q.val)]
    ELSE q

\* A setRequestHandler callback is invoked: it calls middleware.execute, which
\* runs the stages and the terminal handler up to the first await.
Receive(r, method, in) ==
    /\ reqs[r].st = "free"
    /\ \A r2 \in 1..(r - 1) : reqs[r2].st # "free"
    /\ received' = received + 1
    /\ LET w0 == [q |-> [FreeReq EXCEPT !.st = "running", !.method = method,
                                        !.name = in[1], !.params = in[2],
                                        !.args = in[3], !.client = in[4]],
                  requests |-> requests, checks |-> checks]
           w1 == execute(w0)
       IN  /\ reqs' = [reqs EXCEPT ![r] = Finish(w1.q)]
           /\ requests' = w1.requests
           /\ checks' = w1.checks
    /\ UNCHANGED <<middlewares, requestsPerMinute, tools, resources, now, ticks>>
    /\ UNCHANGED healthVars
    /\ UNCHANGED auxVars

\* "await tool.<method>(args)" settles and the tools/call handler resumes.
ToolDone(r, o) ==
    /\ reqs[r].st = "awaitTool"
    /\ o \in ToolSettles(reqs[r].op, reqs[r].opArgs)
    /\ reqs' = [reqs EXCEPT ![r] = Finish([@ EXCEPT !.st = "settled",
                                                    !.produced = o,
                                                    !.val = toolCallSettle(o)])]
    /\ UNCHANGED <<middlewares, requestsPerMinute, requests, tools, resources,
                   now, ticks, received, checks>>
    /\ UNCHANGED healthVars
    /\ UNCHANGED auxVars

\* The innermost stage that awaits next() resumes.
Unwind(r) ==
    /\ reqs[r].st = "settled"
    /\ reqs[r].stack # <<>>
    /\ LET w == [q |-> reqs[r], requests |-> requests, checks |-> checks]
           top == reqs[r].stack[Len(reqs[r].stack)]
           w1 == IF top = "repeat" THEN repeatSettle(w) ELSE loggingSettle(w)
       IN  /\ reqs' = [reqs EXCEPT ![r] = Finish(w1.q)]
           /\ requests' = w1.requests
           /\ checks' = w1.checks
    /\ UNCHANGED <<middlewares, requestsPerMinute, tools, resources,
                   now, ticks, received>>
    /\ UNCHANGED healthVars
    /\ UNCHANGED auxVars

\* The transport has sent the response; the request is discarded.
Respond(r) ==
    /\ reqs[r].st = "done"
    /\ reqs' = [reqs EXCEPT ![r] = FreeReq]
    /\ UNCHANGED <<middlewares, requestsPerMinute, requests, tools, resources,
                   now, ticks, received, checks>>
    /\ UNCHANGED healthVars
    /\ UNCHANGED auxVars

\* Time passes.
Tick(d) ==
    /\ ticks < MaxTicks
    /\ now' = now + d
    /\ ticks' = ticks + 1
    /\ UNCHANGED <<middlewares, requestsPerMinute, requests, tools, resources,
                   reqs, received, checks>>
    /\ UNCHANGED healthVars
    /\ UNCHANGED auxVars

----------------------------------------------------------------------------
(* The server: constructor, then requests *)

HealthIdle ==
    /\ healthCheckInterval = 0
    /\ timers = {}
    /\ nextTimer = 1
    /\ heapUsed = 0
    /\ health = <<>>

\* The runtime was started without --expose-gc.
HealthInit == HealthIdle /\ globalGc = FALSE

\* The process is up; nothing has used the file manager or a cache.
LifeInit == proc = [st |-> "running", code |-> 0, signal |-> ""]
FileInit == files = <<>>
CacheIdle ==
    /\ cache = <<>>
    /\ maxSize = 1
    /\ ttl = 1
    /\ cacheLog = [op |-> "new", key |-> 0, result |-> [k |-> "undefined"],
                   onlySets |-> TRUE, inserted |-> {}, used |-> <<>>,
                   removed |-> {}]

\* A Logger with nothing logged.
LoggerIdle ==
    /\ logs = <<>>
    /\ maxLogs = 1
    /\ logged = <<>>
    /\ logOut = [count |-> 0, result |-> <<>>]

\* The default configuration, of which one entry is kept.
loadConfig == [t |-> "object",
               props |-> [k \in {"server"} |->
                   [t |-> "object",
                    props |-> [k2 \in {"name"} |->
                        [t |-> "value", v |-> "typescript-mcp-server"]]]]]

ConfigInit ==
    /\ config = loadConfig
    /\ objectPrototype = [k \in {} |-> 0]
    /\ configLog = [n |-> 0, op |-> "new", path |-> <<>>, value |-> "",
                    raised |-> FALSE, result |-> [t |-> "undefined"]]

\* A string that may be undefined.
NoKey == [t |-> "undefined"]
Key(v) == [t |-> "string", v |-> v]

\* No authentication stage was built and the variable is not set.
AuthInit ==
    /\ apiKey = NoKey
    /\ MCP_API_KEY = NoKey

AuxInit ==
    LifeInit /\ FileInit /\ CacheIdle /\ LoggerIdle /\ ConfigInit /\ AuthInit

PipeInit(chain) ==
    /\ middlewares = chain
    /\ requestsPerMinute \in 0..MaxCeiling
    /\ requests = [c \in {} |-> <<>>]
    /\ \E calculatorEnabled \in BOOLEAN, fileManagerEnabled \in BOOLEAN :
           tools = initializeTools(calculatorEnabled, fileManagerEnabled)
    /\ resources = initializeResources
    /\ now = 0
    /\ ticks = 0
    /\ reqs = [r \in Slots |-> FreeReq]
    /\ received = 0
    /\ checks = <<>>

\* setupMiddleware: logging first, then the rate limit.
setupMiddleware == <<"logging", "rateLimit">>

Init == PipeInit(setupMiddleware) /\ HealthInit /\ AuxInit

Next ==
    \/ /\ received < MaxRequests
       /\ \E r \in Slots, method \in Methods :
              \E in \in Inputs(method) : Receive(r, method, in)
    \/ \E r \in Slots : \E o \in ToolOutcomes(reqs[r].op) : ToolDone(r, o)
    \/ \E r \in Slots : Unwind(r)
    \/ \E r \in Slots : Respond(r)

Spec == Init /\ [][Next]_vars

\* The same server where the rate limit either rejects every request
\* (security.rateLimitRpm is 0) or is never reached.
InitCalls ==
    /\ Init
    /\ requestsPerMinute \in {0, MaxRequests}

SpecCalls == InitCalls /\ [][Next]_vars

\* The same server with the clock running, serving a request whose handler
\* awaits (tools/call) and one whose handler does not (tools/list).
RateMethods == {"tools/call", "tools/list"}

RateInputs(method) ==
    IF method = "tools/call"
    THEN {<<"calculate", TRUE, "args", "A">>}
    ELSE {<<"", TRUE, "undefined", "A">>}

\* The calculation succeeds: what it returns does not reach the rate limit.
RateOutcomes == {[k |-> "ok", v |-> ToolResult(<<"done: ", "calculate">>, FALSE)]}

NextRate ==
    \/ /\ received < MaxRateRequests
       /\ \E r \in Slots, method \in RateMethods :
              \E in \in RateInputs(method) : Receive(r, method, in)
    \/ \E r \in Slots : \E o \in RateOutcomes : ToolDone(r, o)
    \/ \E r \in Slots : Unwind(r)
    \/ \E r \in Slots : Respond(r)
    \/ \E d \in Deltas : Tick(d)


\* The rate-limit view starts from the default configuration (both tool
\* families enabled).
InitRate ==
    /\ Init
    /\ tools = initializeTools(TRUE, TRUE)

SpecRate == InitRate /\ [][NextRate]_vars

\* The same server with the clock running, serving the four methods: a call
\* whose tool succeeds or fails, a read that succeeds or fails, and the lists.
MethodInputs(method) ==
    CASE method = "tools/call"     -> {<<"calculate", TRUE, "args", "A">>}
      [] method = "resources/read" -> {<<u, TRUE, "undefined", "A">> : u \in Uris}
      [] OTHER                     -> {<<"", TRUE, "undefined", "A">>}

NextMethods ==
    \/ /\ received < MaxRequests
       /\ \E r \in Slots, method \in Methods :
              \E in \in MethodInputs(method) : Receive(r, method, in)
    \/ \E r \in Slots : \E o \in ToolOutcomes(reqs[r].op) : ToolDone(r, o)
    \/ \E r \in Slots : Unwind(r)
    \/ \E r \in Slots : Respond(r)
    \/ \E d \in Deltas : Tick(d)

\* security.rateLimitRpm is 1.
InitMethods ==
    /\ InitRate
    /\ requestsPerMinute = 1

SpecMethods == InitMethods /\ [][NextMethods]_vars

\* The same server receiving requests of two peers.
ClientInputs == {<<"", TRUE, "undefined", c>> : c \in Callers}

NextClients ==
    \/ /\ received < MaxRequests
       /\ \E r \in Slots, in \in ClientInputs : Receive(r, "tools/list", in)
    \/ \E r \in Slots : Unwind(r)
    \/ \E r \in Slots : Respond(r)
    \/ \E d \in Deltas : Tick(d)

SpecClients == InitRate /\ [][NextClients]_vars

----------------------------------------------------------------------------
(* MiddlewareManager with any stages registered by use() *)

StageKinds == {"logging", "rateLimit", "validation", "shortCircuit"}

RECURSIVE Chains(_)
Chains(n) ==
    IF n = 0 THEN {<<>>}
    ELSE LET shorter == Chains(n - 1)
         IN  shorter \cup {Append(c, k) : c \in shorter, k \in StageKinds}

\* One rate-limit stage at most: the variable requests is the map of one stage.
InitChain ==
    /\ \E chain \in Chains(MaxStages) :
           /\ Cardinality({i \in 1..Len(chain) : chain[i] = "rateLimit"}) <= 1
           /\ PipeInit(chain)
    /\ requestsPerMinute = 1
    /\ tools = initializeTools(TRUE, FALSE)
    /\ HealthInit
    /\ AuxInit

\* A handler that awaits, one that fails, and one that returns at once with
\* or without request.params.
ChainMethods == {"tools/call", "resources/read", "tools/list"}

ChainInputs(method) ==
    CASE method = "tools/call"     -> {<<"calculate", TRUE, "args", "A">>}
      [] method = "resources/read" -> {<<"missing://resource", TRUE, "undefined", "A">>}
      [] OTHER                     -> {<<"", p, "undefined", "A">> : p \in BOOLEAN}

NextChain ==
    \/ /\ received < MaxRequests
       /\ \E r \in Slots, method \in ChainMethods :
              \E in \in ChainInputs(method) : Receive(r, method, in)
    \/ \E r \in Slots : \E o \in ToolOutcomes(reqs[r].op) : ToolDone(r, o)
    \/ \E r \in Slots : Unwind(r)
    \/ \E r \in Slots : Respond(r)

SpecChain == InitChain /\ [][NextChain]_vars

\* A chain with the authentication stage, built with any key or none, in an
\* environment where MCP_API_KEY is unset, empty or set, and may be changed
\* while the server runs.
KeyValues == {NoKey, Key(""), Key("k1"), Key("k2")}

AuthChains == {<<"authentication">>, <<"logging", "authentication">>}

InitAuth ==
    /\ \E chain \in AuthChains : PipeInit(chain)
    /\ requestsPerMinute = 1
    /\ tools = initializeTools(TRUE, FALSE)
    /\ HealthInit
    /\ LifeInit /\ FileInit /\ CacheIdle /\ LoggerIdle /\ ConfigInit
    /\ apiKey \in KeyValues
    /\ MCP_API_KEY \in KeyValues

\* process.env.MCP_API_KEY is assigned or deleted.
SetEnv(v) ==
    /\ MCP_API_KEY # v
    /\ MCP_API_KEY' = v
    /\ UNCHANGED <<pipeVars, healthVars, lifeVars, fileVars, cacheVars, logVars,
                   configVars, apiKey>>

NextAuth ==
    \/ NextChain
    \/ \E v \in KeyValues : SetEnv(v)

SpecAuth == InitAuth /\ [][NextAuth]_vars

\* The chains with one stage that calls its continuation twice.
RepeatChains ==
    {<<"repeat">>} \cup {<<"repeat", k>> : k \in StageKinds}
                   \cup {<<k, "repeat">> : k \in StageKinds}

InitRepeat ==
    /\ \E chain \in RepeatChains : PipeInit(chain)
    /\ requestsPerMinute = 1
    /\ tools = initializeTools(TRUE, FALSE)
    /\ HealthInit
    /\ AuxInit

SpecRepeat == InitRepeat /\ [][NextChain]_vars

----------------------------------------------------------------------------
(* The server with a tool added as the README describes *)

InitExtended ==
    /\ middlewares = setupMiddleware
    /\ requestsPerMinute \in 0..MaxCeiling
    /\ requests = [c \in {} |-> <<>>]
    /\ \E calculatorEnabled \in BOOLEAN, fileManagerEnabled \in BOOLEAN :
           tools = Append(initializeTools(calculatorEnabled, fileManagerEnabled),
                          addedTool)
    /\ resources = initializeResources
    /\ now = 0
    /\ ticks = 0
    /\ reqs = [r \in Slots |-> FreeReq]
    /\ received = 0
    /\ checks = <<>>
    /\ HealthInit
    /\ AuxInit

ExtendedMethods == {"tools/call", "tools/list"}

ExtendedInputs(method) ==
    IF method = "tools/call"
    THEN {<<n, TRUE, a, "A">> : n \in {"my_tool", "calculate", "read_file"},
                                a \in Arguments}
    ELSE {<<"", TRUE, "undefined", "A">>}

NextExtended ==
    \/ /\ received < MaxRequests
       /\ \E r \in Slots, method \in ExtendedMethods :
              \E in \in ExtendedInputs(method) : Receive(r, method, in)
    \/ \E r \in Slots : \E o \in ToolOutcomes(reqs[r].op) : ToolDone(r, o)
    \/ \E r \in Slots : Unwind(r)
    \/ \E r \in Slots : Respond(r)

SpecExtended == InitExtended /\ [][NextExtended]_vars

----------------------------------------------------------------------------
(* HealthChecker *)

memoryThreshold == 500 * 1024 * 1024

HeapLevels == {memoryThreshold - 1, memoryThreshold, memoryThreshold + 1}

\* Variant: the threshold is written without its last factor.
getHealthStatusKiB(heap) == IF heap < 500 * 1024 THEN "healthy" ELSE "unhealthy"

\* getHealthStatus().status
getHealthStatus(heap) == IF heap < memoryThreshold THEN "healthy" ELSE "unhealthy"

\* Variant: the tool flags tell what the registry holds.
HealthStatusOfRegistry(heap) ==
    [status |-> getHealthStatus(heap),
     tools |-> [calculator |-> toolsHas("calculate"),
                fileManager |-> toolsHas("read_file")]]

\* The snapshot getHealthStatus returns: the status and the tool flags (the
\* timestamp, the uptime and the memory figures are left out).
HealthStatus(heap) ==
    [status |-> getHealthStatus(heap),
     tools |-> [calculator |-> TRUE, fileManager |-> TRUE]]

\* isHealthy()
isHealthy(heap) == getHealthStatus(heap) = "healthy"

\* setInterval returns a fresh handle; the previous handle is overwritten.
startMonitoring(h) ==
    [h EXCEPT !.healthCheckInterval = h.nextTimer,
              !.timers = @ \cup {h.nextTimer},
              !.nextTimer = @ + 1,
              !.raised = FALSE]

\* Variant: the handle is used without the guard and fails when undefined.
stopMonitoringUnguarded(h) ==
    IF h.healthCheckInterval # 0
    THEN [h EXCEPT !.timers = @ \ {h.healthCheckInterval}, !.raised = FALSE]
    ELSE [h EXCEPT !.raised = TRUE]

\* clearInterval of the stored handle, if there is one; the handle is kept.
stopMonitoring(h) ==
    IF h.healthCheckInterval # 0
    THEN [h EXCEPT !.timers = @ \ {h.healthCheckInterval}, !.raised = FALSE]
    ELSE [h EXCEPT !.raised = FALSE]

Checker ==
    [healthCheckInterval |-> healthCheckInterval, timers |-> timers,
     nextTimer |-> nextTimer, raised |-> FALSE]

HealthCall(op, h) ==
    /\ Len(health) < MaxHealthOps
    /\ healthCheckInterval' = h.healthCheckInterval
    /\ timers' = h.timers
    /\ nextTimer' = h.nextTimer
    /\ health' = Append(health, [op |-> op, raised |-> h.raised, status |-> ""])
    /\ UNCHANGED <<heapUsed, globalGc>>
    /\ UNCHANGED pipeVars
    /\ UNCHANGED auxVars

StartMonitoring == HealthCall("start", startMonitoring(Checker))

StopMonitoring == HealthCall("stop", stopMonitoring(Checker))

\* Variant: the callback calls global.gc() without testing that it exists.
TimerTickGcUnguarded(t, after) ==
    /\ Len(health) < MaxHealthOps
    /\ t \in timers
    /\ LET status == HealthStatus(heapUsed)
           unhealthy == status.status = "unhealthy"
       IN  /\ health' = Append(health, [op |-> "tick",
                                        raised |-> unhealthy /\ ~globalGc,
                                        status |-> status.status,
                                        snapshot |-> status,
                                        warned |-> unhealthy,
                                        gc |-> unhealthy])
           /\ IF unhealthy /\ globalGc
              THEN after <= heapUsed
              ELSE after = heapUsed
    /\ heapUsed' = after
    /\ UNCHANGED <<healthCheckInterval, timers, nextTimer, globalGc>>
    /\ UNCHANGED pipeVars
    /\ UNCHANGED auxVars

\* The interval callback of an active timer runs.
\* An unhealthy status is warned about and, where global.gc exists, followed
\* by a collection, after which the heap is "after", no larger than before.
TimerTick(t, after) ==
    /\ Len(health) < MaxHealthOps
    /\ t \in timers
    /\ LET status == HealthStatus(heapUsed)
           unhealthy == status.status = "unhealthy"
       IN  /\ health' = Append(health, [op |-> "tick", raised |-> FALSE,
                                        status |-> status.status,
                                        snapshot |-> status,
                                        warned |-> unhealthy,
                                        gc |-> unhealthy /\ globalGc])
           /\ IF unhealthy /\ globalGc
              THEN after <= heapUsed
              ELSE after = heapUsed
    /\ heapUsed' = after
    /\ UNCHANGED <<healthCheckInterval, timers, nextTimer, globalGc>>
    /\ UNCHANGED pipeVars
    /\ UNCHANGED auxVars

\* Variant: the call answers with the snapshot of the latest tick, if any.
SampleStored ==
    /\ Len(health) < MaxHealthOps
    /\ LET ticked == {i \in 1..Len(health) : health[i].op = "tick"}
           stored == IF ticked = {} THEN HealthStatus(heapUsed)
                     ELSE health[CHOOSE i \in ticked :
                                    \A j \in ticked : j <= i].snapshot
       IN  health' = Append(health, [op |-> "sample", raised |-> FALSE,
                                     status |-> stored.status,
                                     snapshot |-> stored])
    /\ UNCHANGED <<healthCheckInterval, timers, nextTimer, heapUsed, globalGc>>
    /\ UNCHANGED pipeVars
    /\ UNCHANGED auxVars

\* getHealthStatus() called from outside (the health resource, isHealthy).
Sample ==
    /\ Len(health) < MaxHealthOps
    /\ health' = Append(health, [op |-> "sample", raised |-> FALSE,
                                 status |-> HealthStatus(heapUsed).status,
                                 snapshot |-> HealthStatus(heapUsed)])
    /\ UNCHANGED <<healthCheckInterval, timers, nextTimer, heapUsed, globalGc>>
    /\ UNCHANGED pipeVars
    /\ UNCHANGED auxVars

\* isHealthy() called from outside.
IsHealthy ==
    /\ Len(health) < MaxHealthOps
    /\ health' = Append(health, [op |-> "isHealthy", raised |-> FALSE,
                                 status |-> IF isHealthy(heapUsed)
                                            THEN "true" ELSE "false"])
    /\ UNCHANGED <<healthCheckInterval, timers, nextTimer, heapUsed, globalGc>>
    /\ UNCHANGED pipeVars
    /\ UNCHANGED auxVars

\* The heap grows or shrinks.
HeapChange(level) ==
    /\ heapUsed # level
    /\ heapUsed' = level
    /\ UNCHANGED <<healthCheckInterval, timers, nextTimer, globalGc, health>>
    /\ UNCHANGED pipeVars
    /\ UNCHANGED auxVars

InitHealth ==
    /\ PipeInit(setupMiddleware)
    /\ requestsPerMinute = 1
    /\ tools = initializeTools(TRUE, TRUE)
    /\ HealthIdle
    /\ globalGc \in BOOLEAN
    /\ AuxInit

NextHealth ==
    \/ StartMonitoring
    \/ StopMonitoring
    \/ \E t \in timers, after \in HeapLevels \cup {0} : TimerTick(t, after)
    \/ Sample
    \/ IsHealthy
    \/ \E level \in HeapLevels : HeapChange(level)

SpecHealth == InitHealth /\ [][NextHealth]_vars

\* The health checker of a server built with any of the tool families
\* enabled or disabled.
InitSnapshot ==
    /\ PipeInit(setupMiddleware)
    /\ requestsPerMinute = 1
    /\ HealthInit
    /\ AuxInit

NextSnapshot ==
    \/ StartMonitoring
    \/ \E t \in timers, after \in HeapLevels \cup {0} : TimerTick(t, after)
    \/ Sample
    \/ \E level \in HeapLevels : HeapChange(level)

SpecSnapshot == InitSnapshot /\ [][NextSnapshot]_vars

----------------------------------------------------------------------------
(* The process: start(), the signal handlers and stop() *)

Signals == {"SIGINT", "SIGTERM"}

\* The module body has constructed the server, installed the signal handlers
\* and called start(), which awaits server.connect(transport).
InitLife ==
    /\ PipeInit(setupMiddleware)
    /\ requestsPerMinute = 1
    /\ tools = initializeTools(TRUE, TRUE)
    /\ HealthInit
    /\ proc = [st |-> "starting", code |-> 0, signal |-> ""]
    /\ FileInit
    /\ CacheIdle
    /\ LoggerIdle
    /\ ConfigInit
    /\ AuthInit

\* connect has resolved: start() logs and calls healthChecker.startMonitoring().
ServerStarted ==
    /\ proc.st = "starting"
    /\ LET h == startMonitoring(Checker)
       IN  /\ healthCheckInterval' = h.healthCheckInterval
           /\ timers' = h.timers
           /\ nextTimer' = h.nextTimer
           /\ health' = Append(health, [op |-> "start", raised |-> h.raised,
                                        status |-> ""])
    /\ proc' = [proc EXCEPT !.st = "running"]
    /\ UNCHANGED <<heapUsed, globalGc>>
    /\ UNCHANGED <<pipeVars, fileVars, cacheVars, logVars, configVars, authVars>>

\* connect has rejected: the catch of start() exits with code 1.
ServerStartFailed ==
    /\ proc.st = "starting"
    /\ proc' = [proc EXCEPT !.st = "exited", !.code = 1]
    /\ UNCHANGED <<pipeVars, healthVars, fileVars, cacheVars,
                   logVars, configVars, authVars>>

\* A signal handler runs: it awaits server.stop(), which logs and calls
\* process.exit(0); the health checker is not touched.
stop(sig) ==
    /\ proc.st # "exited"
    /\ proc' = [proc EXCEPT !.st = "exited", !.code = 0, !.signal = sig]
    /\ UNCHANGED <<pipeVars, healthVars, fileVars, cacheVars,
                   logVars, configVars, authVars>>

NextLife ==
    \/ ServerStarted
    \/ ServerStartFailed
    \/ \E sig \in Signals : stop(sig)
    \/ /\ proc.st = "running"
       /\ \/ \E t \in timers, after \in HeapLevels \cup {0} : TimerTick(t, after)
          \/ Sample
          \/ IsHealthy
          \/ \E level \in HeapLevels : HeapChange(level)

SpecLife == InitLife /\ [][NextLife]_vars

----------------------------------------------------------------------------
(* FileManagerTool: path validation and the three file operations.  A string
   is the sequence of its characters. *)

\* process.cwd()
cwd == <<"/", "w">>

\* resolve(process.cwd(), 'data'), resolve(process.cwd(), 'temp')
allowedPaths == <<cwd \o <<"/", "d", "a", "t", "a">>, cwd \o <<"/", "t", "e", "m", "p">>>>

\* The paths a request can name; the empty one also stands for a missing path.
UserPaths ==
    {<<"/", "e", "t", "c", "/", "p", "a", "s", "s", "w", "d">>,
     <<"d", "a", "t", "a", "/", "f">>,
     <<"/", "w", "/", "d", "a", "t", "a">>,
     <<"t", "e", "m", "p", "/", ".", ".", "/", "d", "a", "t", "a", "/", "f">>,
     <<"d", "a", "t", "a", "/", ".", ".", "/", "s">>,
     <<"d", "a", "t", "a", "2", "/", "f">>,
     <<"/", "w", "/", "t", "e", "m", "p", "/", "f">>,
     <<"/", "w", "/", "t", "e", "m", "p", "o">>,
     <<>>}

\* s.split('/')
RECURSIVE Split(_)
Split(s) ==
    IF s = <<>> THEN << <<>> >>
    ELSE LET rest == Split(Tail(s))
         IN  IF Head(s) = "/"
             THEN << <<>> >> \o rest
             ELSE << <<Head(s)>> \o Head(rest) >> \o Tail(rest)

\* Normalisation of the segments: '' and '.' are dropped, '..' drops the
\* segment before it (the root has no parent).
RECURSIVE Normalize(_, _)
Normalize(segments, acc) ==
    IF segments = <<>> THEN acc
    ELSE LET h == Head(segments)
         IN  Normalize(Tail(segments),
                 IF h = <<>> \/ h = <<".">> THEN acc
                 ELSE IF h = <<".", ".">>
                 THEN (IF acc = <<>> THEN acc ELSE SubSeq(acc, 1, Len(acc) - 1))
                 ELSE Append(acc, h))

RECURSIVE JoinPath(_)
JoinPath(segments) ==
    IF segments = <<>> THEN <<>>
    ELSE <<"/">> \o Head(segments) \o JoinPath(Tail(segments))

\* path.resolve(userPath): an absolute, normalised path without a trailing
\* slash; a relative path is taken from process.cwd().
resolve(userPath) ==
    LET absolute == IF userPath # <<>> /\ Head(userPath) = "/"
                    THEN userPath
                    ELSE cwd \o <<"/">> \o userPath
        segments == Normalize(Split(absolute), <<>>)
    IN  IF segments = <<>> THEN <<"/">> ELSE JoinPath(segments)

\* String.prototype.startsWith
startsWith(str, prefix) ==
    /\ Len(prefix) <= Len(str)
    /\ SubSeq(str, 1, Len(prefix)) = prefix

\* validatePath: the resolved path, or the error it throws.
validatePath(userPath) ==
    IF userPath = <<>>
    THEN Err([text |-> "Path must be a non-empty string"])
    ELSE LET resolvedPath == resolve(userPath)
         IN  IF \E i \in 1..Len(allowedPaths) :
                    startsWith(resolvedPath, allowedPaths[i])
             THEN Ok(resolvedPath)
             ELSE Err([text |-> "Access denied: Path ", path |-> userPath,
                       tail |-> " is not in allowed directories"])

\* handleError: "Error <operation>: <message>" with isError.
handleError(message, operation) ==
    ToolResult([text |-> "Error ", operation |-> operation, message |-> message],
               TRUE)

FileOps == {"readFile", "writeFile", "listDirectory"}

operationText(op, path) ==
    [text |-> CASE op = "readFile"  -> "reading file: "
                [] op = "writeFile" -> "writing file: "
                [] OTHER            -> "listing directory: ",
     path |-> path]

\* readFile, writeFile, listDirectory: the whole call.  access tells whether
\* the call reached the fs module (stat, readFile, mkdir, writeFile, readdir);
\* fsOk is whether the file system then served it.
fileOperation(op, path, content, fsOk) ==
    LET checked == validatePath(path)
        failed(message) ==
            [op |-> op, path |-> path, access |-> FALSE,
             result |-> handleError(message, operationText(op, path))]
    IN  IF op = "writeFile" /\ ~content
        THEN failed([text |-> "Content is required for write operation"])
        ELSE IF checked.k = "err"
        THEN failed(checked.message)
        ELSE IF fsOk
        THEN [op |-> op, path |-> path, access |-> TRUE,
              result |-> ToolResult([text |-> "done: ", path |-> path], FALSE)]
        ELSE [op |-> op, path |-> path, access |-> TRUE,
              result |-> handleError([text |-> "ENOENT: no such file or directory"],
                                     operationText(op, path))]

\* One call of a file operation.
FileCall(op, path, content, fsOk) ==
    /\ Len(files) < MaxFileOps
    /\ files' = Append(files, fileOperation(op, path, content, fsOk))
    /\ UNCHANGED <<pipeVars, healthVars, lifeVars, cacheVars, logVars, configVars, authVars>>

InitFiles ==
    /\ PipeInit(setupMiddleware)
    /\ requestsPerMinute = 1
    /\ tools = initializeTools(TRUE, TRUE)
    /\ HealthInit
    /\ AuxInit

NextFiles ==
    \E op \in FileOps, path \in UserPaths, content \in BOOLEAN, fsOk \in BOOLEAN :
        FileCall(op, path, content, fsOk)

SpecFiles == InitFiles /\ [][NextFiles]_vars

----------------------------------------------------------------------------
(* LRUCache.  this.cache is a Map, which iterates in insertion order: it is
   the sequence of its entries, the least recently used first.  A call
   returns the new Map and the value the caller gets. *)

\* The keys in use: one more than the largest capacity.
Keys == 1..(MaxCacheSize + 1)

Undefined == [k |-> "undefined"]
Value(v) == [k |-> "value", v |-> v]
Boolean(b) == [k |-> "boolean", v |-> b]
Number(n) == [k |-> "number", v |-> n]

\* Map.has, Map.get, Map.delete
mapHas(c, key) == \E i \in 1..Len(c) : c[i].key = key
mapGet(c, key) == CHOOSE e \in Range(c) : e.key = key
mapDelete(c, key) == SelectSeq(c, LAMBDA e : e.key # key)

\* Date.now() - item.timestamp > this.ttl
expired(item, t) == t - item.timestamp > ttl

\* Variant: a hit stores the entry again with the time of the hit.
getRefreshesAge(c, key, t) ==
    IF ~mapHas(c, key)
    THEN [cache |-> c, result |-> Undefined]
    ELSE IF expired(mapGet(c, key), t)
    THEN [cache |-> mapDelete(c, key), result |-> Undefined]
    ELSE [cache |-> Append(mapDelete(c, key),
                           [mapGet(c, key) EXCEPT !.timestamp = t]),
          result |-> Value(mapGet(c, key).value)]

\* Variant: a hit returns the value and leaves the entry where it is.
getNoTouch(c, key, t) ==
    IF ~mapHas(c, key)
    THEN [cache |-> c, result |-> Undefined]
    ELSE IF expired(mapGet(c, key), t)
    THEN [cache |-> mapDelete(c, key), result |-> Undefined]
    ELSE [cache |-> c, result |-> Value(mapGet(c, key).value)]

get(c, key, t) ==
    IF ~mapHas(c, key)
    THEN [cache |-> c, result |-> Undefined]
    ELSE IF expired(mapGet(c, key), t)
    THEN [cache |-> mapDelete(c, key), result |-> Undefined]
    ELSE [cache |-> Append(mapDelete(c, key), mapGet(c, key)),
          result |-> Value(mapGet(c, key).value)]

\* Variant: the eviction test is > instead of >=.
setEvictsLate(c, key, value, t) ==
    LET kept == IF mapHas(c, key) THEN mapDelete(c, key)
                ELSE IF Len(c) > maxSize /\ c # <<>> THEN Tail(c)
                ELSE c
    IN  [cache |-> Append(kept, [key |-> key, value |-> value, timestamp |-> t]),
         result |-> Undefined]

\* set: a present key is deleted first; otherwise, when the Map is full, its
\* first key is deleted (if there is one); then the entry goes to the end.
set(c, key, value, t) ==
    LET kept == IF mapHas(c, key) THEN mapDelete(c, key)
                ELSE IF Len(c) >= maxSize /\ c # <<>> THEN Tail(c)
                ELSE c
    IN  [cache |-> Append(kept, [key |-> key, value |-> value, timestamp |-> t]),
         result |-> Undefined]

has(c, key, t) ==
    IF ~mapHas(c, key)
    THEN [cache |-> c, result |-> Boolean(FALSE)]
    ELSE IF expired(mapGet(c, key), t)
    THEN [cache |-> mapDelete(c, key), result |-> Boolean(FALSE)]
    ELSE [cache |-> c, result |-> Boolean(TRUE)]

delete(c, key) == [cache |-> mapDelete(c, key), result |-> Boolean(mapHas(c, key))]

clear(c) == [cache |-> <<>>, result |-> Undefined]

size(c) == [cache |-> c, result |-> Number(Len(c))]

\* One call on the cache.  onlySets and inserted note, for as long as set is
\* the only method called, the keys that were set; used lists the keys that
\* are still cached by their last use (a set or a get that returned a value),
\* the least recent first; removed are the entries the call took out.
CacheCall(op, key, ret) ==
    /\ cache' = ret.cache
    /\ cacheLog' = [op |-> op, key |-> key, result |-> ret.result,
                    onlySets |-> cacheLog.onlySets /\ op = "set",
                    inserted |-> IF cacheLog.onlySets /\ op = "set"
                                 THEN cacheLog.inserted \cup {key} ELSE {},
                    used |->
                        LET touched ==
                                IF op = "set" \/ (op = "get" /\ ret.result.k = "value")
                                THEN Append(SelectSeq(cacheLog.used,
                                                      LAMBDA k : k # key), key)
                                ELSE cacheLog.used
                        IN  SelectSeq(touched, LAMBDA k : mapHas(ret.cache, k)),
                    removed |-> {e \in Range(cache) : ~mapHas(ret.cache, e.key)}]
    /\ UNCHANGED <<maxSize, ttl>>
    /\ UNCHANGED <<pipeVars, healthVars, lifeVars, fileVars, logVars, configVars, authVars>>

CacheSet(key) == CacheCall("set", key, set(cache, key, "v", now))
CacheGet(key) == CacheCall("get", key, get(cache, key, now))
CacheHas(key) == CacheCall("has", key, has(cache, key, now))
CacheDelete(key) == CacheCall("delete", key, delete(cache, key))
CacheClear == CacheCall("clear", 0, clear(cache))
CacheSize == CacheCall("size", 0, size(cache))

\* new LRUCache(maxSize, ttl)
InitCache ==
    /\ PipeInit(setupMiddleware)
    /\ requestsPerMinute = 1
    /\ tools = initializeTools(TRUE, TRUE)
    /\ HealthInit
    /\ LifeInit
    /\ FileInit
    /\ cache = <<>>
    /\ maxSize \in 1..MaxCacheSize
    /\ ttl = 1
    /\ cacheLog = [op |-> "new", key |-> 0, result |-> Undefined,
                   onlySets |-> TRUE, inserted |-> {}, used |-> <<>>,
                   removed |-> {}]
    /\ LoggerIdle
    /\ ConfigInit
    /\ AuthInit

NextCache ==
    \/ \E key \in Keys : CacheSet(key)
    \/ \E key \in Keys : CacheGet(key)
    \/ \E key \in Keys : CacheHas(key)
    \/ \E key \in Keys : CacheDelete(key)
    \/ CacheClear
    \/ CacheSize
    \/ Tick(1)

SpecCache == InitCache /\ [][NextCache]_vars

----------------------------------------------------------------------------
(* Logger *)

Levels == {"INFO", "ERROR", "WARN", "DEBUG"}

\* getRecentLogs(count: number = 50)
DefaultCount == 50

\* The counts a caller asks for.
Counts == 0..(MaxLogs + 1)

Min(a, b) == IF a < b THEN a ELSE b
Max(a, b) == IF a > b THEN a ELSE b

\* Array.prototype.slice(start): a negative start counts from the end, and -0
\* is 0, the start of the array.
slice(array, start) ==
    LET from == IF start < 0
                THEN Max(Len(array) + start, 0)
                ELSE Min(start, Len(array))
    IN  SubSeq(array, from + 1, Len(array))

\* Variant: the oldest maxLogs entries are kept.
logKeepsOldest(ls, limit, level, message, t) ==
    LET pushed == Append(ls, [level |-> level, message |-> message,
                              timestamp |-> t])
    IN  IF Len(pushed) > limit THEN SubSeq(pushed, 1, limit) ELSE pushed

\* log: push, then keep the last maxLogs entries.
log(ls, limit, level, message, t) ==
    LET pushed == Append(ls, [level |-> level, message |-> message,
                              timestamp |-> t])
    IN  IF Len(pushed) > limit THEN slice(pushed, 0 - limit) ELSE pushed

\* The line getRecentLogs writes for an entry.
logLine(entry) ==
    [timestamp |-> entry.timestamp, level |-> entry.level,
     message |-> entry.message]

\* getRecentLogs: the lines of logs.slice(-count), which join('\n') puts
\* one after the other.
getRecentLogs(ls, count) ==
    LET recent == slice(ls, 0 - count)
    IN  [i \in 1..Len(recent) |-> logLine(recent[i])]

\* info, error, warn or debug is called.
LoggerCall(level, message) ==
    /\ Len(logged) < MaxLogCalls
    /\ logs' = log(logs, maxLogs, level, message, now)
    /\ logged' = Append(logged, [level |-> level, message |-> message,
                                 timestamp |-> now])
    /\ UNCHANGED <<maxLogs, logOut>>
    /\ UNCHANGED <<pipeVars, healthVars, lifeVars, fileVars, cacheVars, configVars, authVars>>

\* getRecentLogs(count) is called.
GetRecentLogs(count) ==
    /\ logOut' = [count |-> count, result |-> getRecentLogs(logs, count)]
    /\ UNCHANGED <<logs, maxLogs, logged>>
    /\ UNCHANGED <<pipeVars, healthVars, lifeVars, fileVars, cacheVars, configVars, authVars>>

\* The logs://recent.txt resource is read: getRecentLogs() with its default.
ReadRecentLogs == GetRecentLogs(DefaultCount)

\* new Logger(); the tests lower maxLogs.
InitLogger ==
    /\ PipeInit(setupMiddleware)
    /\ requestsPerMinute = 1
    /\ tools = initializeTools(TRUE, TRUE)
    /\ HealthInit
    /\ LifeInit
    /\ FileInit
    /\ CacheIdle
    /\ ConfigInit
    /\ AuthInit
    /\ logs = <<>>
    /\ maxLogs \in 1..MaxLogs
    /\ logged = <<>>
    /\ logOut = [count |-> 0, result |-> <<>>]

NextLogger ==
    \/ \E level \in Levels : LoggerCall(level, "message")
    \/ \E count \in Counts : GetRecentLogs(count)
    \/ ReadRecentLogs

SpecLogger == InitLogger /\ [][NextLogger]_vars

----------------------------------------------------------------------------
(* ConfigManager.  A JavaScript value is a primitive, undefined, a plain
   object with its own properties, or Object.prototype itself, whose added
   properties are objectPrototype and which every plain object and primitive
   inherits from.  A path is the sequence path.split('.') yields.  None of
   the keys used names a built-in property. *)

JsValue(v) == [t |-> "value", v |-> v]
JsUndefined == [t |-> "undefined"]
JsObject(props) == [t |-> "object", props |-> props]
ObjectPrototype == [t |-> "prototype"]

NoProps == [k \in {} |-> 0]

\* The own properties of an object value.
ownProps(value, proto) ==
    CASE value.t = "object"    -> value.props
      [] value.t = "prototype" -> proto
      [] OTHER                 -> NoProps

\* value?.[key]
getProp(value, key, proto) ==
    CASE value.t = "undefined" -> JsUndefined
      [] key = "__proto__" ->
             IF value.t = "prototype" THEN JsUndefined ELSE ObjectPrototype
      [] key \in DOMAIN ownProps(value, proto) -> ownProps(value, proto)[key]
      [] key \in DOMAIN proto -> proto[key]
      [] OTHER -> JsUndefined

\* get: the loop "value = value?.[key]" over the keys of the path.
RECURSIVE getIn(_, _, _)
getIn(value, keys, proto) ==
    IF keys = <<>> THEN value
    ELSE getIn(getProp(value, Head(keys), proto), Tail(keys), proto)

get_(path) == getIn(config, path, objectPrototype)

\* key in current (current an object)
hasProp(current, key, proto) ==
    \/ key = "__proto__"
    \/ key \in DOMAIN ownProps(current, proto)
    \/ key \in DOMAIN proto

\* set from the object current on: the loop that walks or creates the
\* intermediate objects, then the assignment "current[last] = newValue".
\* Objects are shared by reference, so a change below current shows in
\* current or in Object.prototype, wherever the changed object hangs.  The
\* "in" operator and the assignment raise a TypeError on a primitive.
RECURSIVE setIn(_, _, _, _)
setIn(current, keys, newValue, proto) ==
    LET key == Head(keys)
        own == ownProps(current, proto)
        write(child) ==
            IF current.t = "prototype"
            THEN [current |-> current, proto |-> MapSet(proto, key, child)]
            ELSE [current |-> JsObject(MapSet(own, key, child)), proto |-> proto]
    IN  IF current.t \in {"value", "undefined"}
        THEN [current |-> current, proto |-> proto, raised |-> TRUE]
        ELSE IF Len(keys) = 1
        THEN IF key = "__proto__"
             THEN [current |-> current, proto |-> proto, raised |-> FALSE]
             ELSE [current |-> write(newValue).current,
                   proto |-> write(newValue).proto, raised |-> FALSE]
        ELSE IF ~hasProp(current, key, proto) \/ key \in DOMAIN own
        THEN LET child == IF key \in DOMAIN own THEN own[key]
                          ELSE JsObject(NoProps)
                 below == setIn(child, Tail(keys), newValue, proto)
                 w == IF current.t = "prototype"
                      THEN [current |-> current,
                            proto |-> MapSet(below.proto, key, below.current)]
                      ELSE [current |-> JsObject(MapSet(own, key, below.current)),
                            proto |-> below.proto]
             IN  [current |-> w.current, proto |-> w.proto,
                  raised |-> below.raised]
        ELSE IF key = "__proto__"
        THEN LET below == setIn(getProp(current, key, proto), Tail(keys),
                                newValue, proto)
             IN  [current |-> current, proto |-> below.proto,
                  raised |-> below.raised]
        ELSE LET below == setIn(proto[key], Tail(keys), newValue, proto)
             IN  [current |-> current,
                  proto |-> MapSet(below.proto, key, below.current),
                  raised |-> below.raised]

SetPaths ==
    {<<"server", "name">>, <<"test", "value">>, <<"value">>,
     <<"server", "name", "first">>, <<"__proto__", "value">>}

GetPaths ==
    SetPaths \cup {<<"server">>, <<"test">>, <<"server", "value">>,
                   <<"non", "existent", "key">>}

ConfigValues == {"test-data", "other"}

\* set(path, newValue) is called.
ConfigSet(path, v) ==
    /\ configLog.n < MaxConfigOps
    /\ LET done == setIn(config, path, JsValue(v), objectPrototype)
       IN  /\ config' = done.current
           /\ objectPrototype' = done.proto
           /\ configLog' = [n |-> configLog.n + 1, op |-> "set", path |-> path,
                            value |-> v, raised |-> done.raised,
                            result |-> JsUndefined]
    /\ UNCHANGED <<pipeVars, healthVars, lifeVars, fileVars, cacheVars, logVars,
                   authVars>>

\* get(path) is called.
ConfigGet(path) ==
    /\ configLog.n < MaxConfigOps
    /\ configLog' = [n |-> configLog.n + 1, op |-> "get", path |-> path,
                     value |-> "", raised |-> FALSE, result |-> get_(path)]
    /\ UNCHANGED <<config, objectPrototype>>
    /\ UNCHANGED <<pipeVars, healthVars, lifeVars, fileVars, cacheVars, logVars,
                   authVars>>

InitConfig ==
    /\ PipeInit(setupMiddleware)
    /\ requestsPerMinute = 1
    /\ tools = initializeTools(TRUE, TRUE)
    /\ HealthInit
    /\ AuxInit

NextConfig ==
    \/ \E path \in SetPaths, v \in ConfigValues : ConfigSet(path, v)
    \/ \E path \in GetPaths : ConfigGet(path)

SpecConfig == InitConfig /\ [][NextConfig]_vars

----------------------------------------------------------------------------
(* Properties *)

InUse(r) == reqs[r].st # "free"
Done(r) == reqs[r].st = "done"
Reached(r, event) == event \in Range(reqs[r].trace)

\* The timestamps the rate-limit stage holds for the client.
Recorded(m) == IF clientId \in DOMAIN m THEN m[clientId] ELSE <<>>

\* The admissions that lie in the window of WindowMs ending at time t; the
\* window is the one the stage counts, (t - WindowMs, t].
AdmittedWithin(t) ==
    {i \in 1..Len(checks) :
        /\ checks[i].admitted
        /\ checks[i].time > t - WindowMs
        /\ checks[i].time <= t}

\* C1: whatever the interleaving of the requests in flight, the number of
\* requests admitted within any trailing window of 60000 ms never exceeds the
\* ceiling.  The count of a window is largest when the window ends at an
\* admission, so the windows ending at the times of the checks are examined.
C1_WindowNeverExceedsCeiling ==
    \A i \in 1..Len(checks) :
        Cardinality(AdmittedWithin(checks[i].time)) <= requestsPerMinute

\* A request is rejected while an admitted one is still awaiting its tool.
C1_Witness ==
    /\ requestsPerMinute >= 1
    /\ \E r1 \in Slots, r2 \in Slots :
           /\ reqs[r1].st = "awaitTool"
           /\ Reached(r2, "rateLimit:rejected")
           /\ Len(Recorded(requests)) = requestsPerMinute

IsErrorResult(out) ==
    /\ out.k = "result"
    /\ out.v.isError = TRUE
    /\ Len(out.v.content) >= 1

\* C2: a request rejected by the rate-limit stage is answered with an error
\* Result (isError true, a message text) and never with a raised failure.
C2_RateLimitedIsErrorResult ==
    \A r \in Slots :
        (Done(r) /\ Reached(r, "rateLimit:rejected")) => IsErrorResult(reqs[r].out)

\* The events with which a stage begins, in the order the stages ran.
StageEvents(trace) ==
    SelectSeq(trace, LAMBDA e : e \in {"Starting", "rateLimit:admitted",
                                       "rateLimit:rejected", "validation",
                                       "shortCircuit"})

\* The stage that wrote event e returned or failed without calling next().
Cut(q, e) ==
    \/ e = "shortCircuit"
    \/ e = "rateLimit:rejected"
    \/ e = "validation" /\ ~q.params

CutOutcome(e) ==
    CASE e = "shortCircuit"       -> Ok([stage |-> "shortCircuit"])
      [] e = "rateLimit:rejected" -> Err(<<"Rate limit exceeded">>)
      [] OTHER                    -> Err(<<"Missing parameters">>)

\* C3: when a stage returns or fails without calling its continuation, no
\* later stage and not the terminal handler runs for that request, and what
\* the stage returned or raised is the outcome of execute.
C3_ShortCircuit ==
    \A r \in Slots :
        InUse(r) =>
            LET q == reqs[r]
                se == StageEvents(q.trace)
            IN  \A i \in 1..Len(se) :
                    Cut(q, se[i]) =>
                        /\ Len(se) = i
                        /\ q.index = i
                        /\ ~Reached(r, "handler")
                        /\ q.op = ""
                        /\ q.stack = <<>> => q.val = CutOutcome(se[i])

\* A short-circuiting stage registered before another stage: the request is
\* over and the later stage never ran.
C3_Witness ==
    /\ Len(middlewares) = 2
    /\ middlewares[1] = "shortCircuit"
    /\ \E r \in Slots : Done(r) /\ reqs[r].out.k = "result"

\* C4: tools/call of a name that is not in the registry returns the Result
\* {content: [text "Error: Tool '<name>' not found"], isError: true}; nothing
\* is raised and no tool operation is invoked.
C4_UnknownToolIsErrorResult ==
    \A r \in Slots :
        (/\ Done(r)
         /\ reqs[r].method = "tools/call"
         /\ Reached(r, "handler")
         /\ ~toolsHas(reqs[r].name)) =>
            /\ reqs[r].out =
                   [k |-> "result",
                    v |-> ToolResult(<<"Error: ", "Tool '", reqs[r].name,
                                       "' not found">>, TRUE)]
            /\ reqs[r].op = ""
            /\ reqs[r].produced = NoVal

C4_Witness ==
    \E r \in Slots :
        /\ Done(r)
        /\ reqs[r].method = "tools/call"
        /\ reqs[r].name = "unknown_tool"
        /\ Reached(r, "handler")

\* C5: resources/read of a uri that is not a registered resource is answered
\* with an error Result (isError true) and not with a raised failure.
C5_UnknownResourceIsErrorResult ==
    \A r \in Slots :
        (/\ Done(r)
         /\ reqs[r].method = "resources/read"
         /\ Reached(r, "handler")
         /\ reqs[r].name \notin resources) => IsErrorResult(reqs[r].out)

\* C6, order: starting from an empty window, as long as the checks lie within
\* one window of the first (less than 60000 ms after it), the k-th check is
\* admitted exactly when k <= ceiling.
C6_Order ==
    \A k \in 1..Len(checks) :
        checks[k].time - checks[1].time < WindowMs =>
            (checks[k].admitted <=> k <= requestsPerMinute)

\* C6, recording: a rejected check leaves the client's timestamps as they were.
C6_RejectRecordsNothing ==
    (/\ Len(checks') = Len(checks) + 1
     /\ ~checks'[Len(checks')].admitted) => Recorded(requests') = Recorded(requests)

\* C6: with ceiling N and an empty window, N+1 checks within 60000 ms are
\* admitted N times and then rejected, and the rejected check records nothing.
C6_AdmitThenReject == [](C6_Order) /\ [][C6_RejectRecordsNothing]_vars

\* Ceiling 2: admitted, admitted, rejected.
C6_Witness ==
    /\ requestsPerMinute = 2
    /\ Len(checks) = 3
    /\ checks[1].admitted /\ checks[2].admitted /\ ~checks[3].admitted
    /\ Len(Recorded(requests)) = 2

\* C7: for a tools/call of a registered name that passed the stages, the
\* Result handed to the transport is the Result the tool operation returned.
C7_ResultPassedThrough ==
    \A r \in Slots :
        (Done(r) /\ reqs[r].produced.k = "ok") =>
            reqs[r].out = [k |-> "result", v |-> reqs[r].produced.v]

C7_Witness ==
    \E r \in Slots :
        /\ Done(r)
        /\ reqs[r].produced.k = "ok"
        /\ reqs[r].produced.v.isError
        /\ Reached(r, "Completed")

\* The names tools/call dispatches to a tool operation.
Dispatchable == {n \in ToolNames : toolsHas(n) /\ toolMethod(n) # ""}

\* C8: the names listed by tools/list are the names tools/call dispatches.
C8_ListedEqualsDispatchable ==
    \A r \in Slots :
        (Done(r) /\ reqs[r].method = "tools/list" /\ reqs[r].out.k = "result") =>
            Range(reqs[r].out.v.tools) = Dispatchable

\* The last startMonitoring or stopMonitoring call so far.
LastControl ==
    LET idx == {i \in 1..Len(health) : health[i].op \in {"start", "stop"}}
    IN  IF idx = {} THEN "none"
        ELSE health[CHOOSE i \in idx : \A j \in idx : j <= i].op

\* C9: at most one timer is active at any time; after stopMonitoring no timer
\* is active and no tick fires until the next startMonitoring.
C9_AtMostOneTimer ==
    /\ Cardinality(timers) <= 1
    /\ LastControl = "stop" => timers = {}
    /\ \A i \in 1..Len(health), j \in 1..Len(health) :
           (i < j /\ health[i].op = "stop" /\ health[j].op = "tick") =>
               \E k \in (i + 1)..(j - 1) : health[k].op = "start"

C10_StopStep ==
    /\ Len(health') = Len(health) + 1
    /\ health'[Len(health')].op = "stop"

\* C10: stopMonitoring never raises and leaves the stored handle's timer
\* cancelled; called when the checker was never started, or again after a
\* stop, it changes nothing.
C10_StopIdempotent ==
    [][C10_StopStep =>
          /\ ~health'[Len(health')].raised
          /\ healthCheckInterval' \notin timers'
          /\ LastControl \in {"none", "stop"} =>
                 UNCHANGED <<healthCheckInterval, timers, nextTimer>>]_vars

\* start, stop, stop.
C10_Witness ==
    \E i \in 1..Len(health) :
        /\ i + 2 <= Len(health)
        /\ health[i].op = "start"
        /\ health[i + 1].op = "stop"
        /\ health[i + 2].op = "stop"
        /\ timers = {}

\* The admissions of one peer among the checks before the i-th that lie in the
\* window of the i-th.
OwnAdmissions(i) ==
    {j \in 1..(i - 1) :
        /\ checks[j].client = checks[i].client
        /\ checks[j].admitted
        /\ checks[j].time > checks[i].time - WindowMs}

\* C13: the decision on a request of a peer depends on that peer's own
\* admissions only: it is admitted exactly when fewer than the ceiling of its
\* own requests were admitted within the window, whatever other peers sent.
C13_ClientsIndependent ==
    \A i \in 1..Len(checks) :
        checks[i].admitted <=>
            Cardinality(OwnAdmissions(i)) < requestsPerMinute

\* C14: with ceiling 0 every check is a rejection, at whatever time it is
\* made, and no timestamp is ever stored.
C14_CeilingZeroRejectsAll ==
    requestsPerMinute = 0 =>
        /\ \A i \in 1..Len(checks) : ~checks[i].admitted
        /\ Recorded(requests) = <<>>

\* Ceiling 0: three rejections, the last more than a window after the first.
C14_Witness ==
    /\ requestsPerMinute = 0
    /\ Len(checks) = 3
    /\ checks[3].time - checks[1].time >= WindowMs
    /\ \E r \in Slots : Done(r) /\ reqs[r].out.k = "raised"

\* C15: a tools/call that names the tool added under 'my_tool' and passes the
\* stages invokes that tool, and the Result the tool returned is the answer.
C15_AddedToolInvoked ==
    \A r \in Slots :
        (/\ Done(r)
         /\ reqs[r].method = "tools/call"
         /\ reqs[r].name = "my_tool"
         /\ Reached(r, "handler")) =>
            /\ reqs[r].tool = "MyCustomTool"
            /\ reqs[r].produced.k = "ok"
            /\ reqs[r].out = [k |-> "result", v |-> reqs[r].produced.v]

FileNames == {"read_file", "write_file", "list_directory"}

\* The operation each name stands for.
C16_Operation(name) ==
    CASE name = "read_file"      -> "readFile"
      [] name = "write_file"     -> "writeFile"
      [] name = "list_directory" -> "listDirectory"
      [] OTHER                   -> "calculate"

\* C16: the three file names are bound to one FileManagerTool instance; a
\* tools/call of a registered name that reaches the handler invokes, once, the
\* operation of that name on the bound instance with the request's arguments,
\* and 'calculate' invokes calculate of the calculator.
C16_NameRoutesToOperation ==
    /\ \A i \in 1..Len(tools), j \in 1..Len(tools) :
           (tools[i].name \in FileNames /\ tools[j].name \in FileNames) =>
               tools[i].tool = tools[j].tool
    /\ \A r \in Slots :
           (/\ reqs[r].method = "tools/call"
            /\ Reached(r, "handler")
            /\ reqs[r].name \in FileNames \cup {"calculate"}
            /\ toolsHas(reqs[r].name)) =>
               /\ reqs[r].op = C16_Operation(reqs[r].name)
               /\ reqs[r].tool = toolsGet(reqs[r].name)
               /\ reqs[r].tool = (IF reqs[r].name = "calculate"
                                  THEN "CalculatorTool" ELSE "FileManagerTool")
               /\ reqs[r].opArgs = reqs[r].args
               /\ Len(SelectSeq(reqs[r].trace,
                                LAMBDA e : e \in {"calculate", "readFile",
                                                  "writeFile", "listDirectory"})) = 1

\* write_file and list_directory in flight on the same instance, and the
\* write was called with the arguments of its request.
C16_Witness ==
    \E r1 \in Slots, r2 \in Slots :
        /\ reqs[r1].name = "write_file" /\ reqs[r1].op = "writeFile"
        /\ reqs[r1].args = "args" /\ reqs[r1].opArgs = "args"
        /\ reqs[r2].name = "list_directory" /\ reqs[r2].op = "listDirectory"
        /\ reqs[r1].tool = reqs[r2].tool
        /\ reqs[r1].st = "awaitTool" /\ reqs[r2].st = "awaitTool"

\* The stage that writes event e when it begins.
EventStage(e) ==
    CASE e = "Starting"     -> "logging"
      [] e = "validation"   -> "validation"
      [] e = "shortCircuit" -> "shortCircuit"
      [] OTHER              -> "rateLimit"

Count(trace, e) == Len(SelectSeq(trace, LAMBDA x : x = e))

\* C17: the stages that have begun for a request are the first stages of the
\* registration order, each once and in that order; the terminal handler has
\* run only if every registered stage began before it and none of them
\* returned or failed without its continuation.  With the server's chain the
\* logging stage begins before the rate-limit stage.
C17_RegistrationOrder ==
    \A r \in Slots :
        InUse(r) =>
            LET q == reqs[r]
                se == StageEvents(q.trace)
            IN  /\ Len(se) <= Len(middlewares)
                /\ \A i \in 1..Len(se) : EventStage(se[i]) = middlewares[i]
                /\ Reached(r, "handler") =>
                       /\ Len(se) = Len(middlewares)
                       /\ Count(q.trace, "handler") = 1
                       /\ \A i \in 1..Len(se) : ~Cut(q, se[i])
                       /\ \A i \in 1..Len(q.trace) :
                              q.trace[i] = "handler" =>
                                  Len(StageEvents(SubSeq(q.trace, 1, i))) = Len(se)

\* The server's chain: logging began, then the rate limit, then the handler.
C17_Witness ==
    /\ middlewares = setupMiddleware
    /\ \E r \in Slots :
           /\ Len(reqs[r].trace) >= 3
           /\ SubSeq(reqs[r].trace, 1, 3) =
                  <<"Starting", "rateLimit:admitted", "handler">>

\* The failure a stage or the terminal handler raised for the request, if any
\* (the tools/call handler catches its own).
FailureOrigin(q) ==
    LET se == StageEvents(q.trace)
    IN  IF Len(se) > 0 /\ Cut(q, se[Len(se)]) /\ CutOutcome(se[Len(se)]).k = "err"
        THEN CutOutcome(se[Len(se)])
        ELSE IF /\ "handler" \in Range(q.trace)
                /\ q.method = "resources/read"
                /\ q.name \notin resources
        THEN Err(<<"Resource not found: ", q.name>>)
        ELSE NoVal

\* C18: once a stage or the terminal handler has raised a failure, the chain
\* carries that failure unchanged: every logging stage that awaits its
\* continuation receives it (none sees a completion), and execute fails with
\* that same failure.
C18_FailurePropagates ==
    \A r \in Slots :
        (InUse(r) /\ FailureOrigin(reqs[r]) # NoVal) =>
            LET q == reqs[r]
            IN  /\ q.val = FailureOrigin(q)
                /\ Count(q.trace, "Completed") = 0
                /\ Count(q.trace, "Failed") + Len(q.stack) =
                       Count(q.trace, "Starting")
                /\ Done(r) =>
                       q.out = [k |-> "raised",
                                message |-> FailureOrigin(q).message]

\* The terminal handler failed below two logging stages: both received the
\* failure and execute failed with it.
C18_Witness ==
    /\ middlewares = <<"logging", "logging">>
    /\ \E r \in Slots :
           /\ Done(r)
           /\ Count(reqs[r].trace, "Failed") = 2
           /\ reqs[r].out = [k |-> "raised",
                             message |-> <<"Resource not found: ",
                                           "missing://resource">>]

\* The resolved location lies in the directory dir: it is dir or below it.
Inside(resolved, dir) ==
    LET rs == Normalize(Split(resolved), <<>>)
        ds == Normalize(Split(dir), <<>>)
    IN  Len(ds) <= Len(rs) /\ SubSeq(rs, 1, Len(ds)) = ds

AccessDenied(result) ==
    /\ result.isError = TRUE
    /\ result.content[1].text.message.text = "Access denied: Path "

\* C19: a file operation on a path that resolves to a location outside the
\* allowed directories, a sibling such as data2 included, returns an error
\* Result with 'Access denied' and does not reach the file system.
C19_OutsideIsDenied ==
    \A i \in 1..Len(files) :
        (/\ files[i].path # <<>>
         /\ \A d \in 1..Len(allowedPaths) :
                ~Inside(resolve(files[i].path), allowedPaths[d])) =>
            /\ ~files[i].access
            /\ AccessDenied(files[i].result)

\* C20: the cache never holds more than maxSize entries and size() reports
\* their number; once more than maxSize distinct keys have been set (nothing
\* but set having been called), it holds exactly maxSize entries.
C20_SizeBounded ==
    /\ Len(cache) <= maxSize
    /\ cacheLog.op = "size" =>
           /\ cacheLog.result = Number(Len(cache))
           /\ cacheLog.result.v <= maxSize
    /\ (cacheLog.onlySets /\ Cardinality(cacheLog.inserted) > maxSize) =>
           Len(cache) = maxSize

\* Capacity 2 and three distinct keys set: two entries are left.
C20_Witness ==
    /\ maxSize = 2
    /\ cacheLog.onlySets
    /\ Cardinality(cacheLog.inserted) = 3
    /\ Len(cache) = 2

CachedKeys(c) == {c[i].key : i \in 1..Len(c)}

\* A set call has just returned.
C21_SetStep == cacheLog'.op = "set" /\ now' = now

\* C21: a set of a key that is not cached into a full cache takes out exactly
\* one entry, the one whose last use (set or get that returned a value) is
\* the oldest; the key set is cached afterwards; a set of a cached key takes
\* out no other key, and a set into a cache that is not full takes out none.
C21_EvictsLeastRecentlyUsed ==
    [][C21_SetStep =>
          LET key == cacheLog'.key
              before == CachedKeys(cache)
              after == CachedKeys(cache')
          IN  /\ key \in after
              /\ key \in before => after = before
              /\ (key \notin before /\ Len(cache) < maxSize) =>
                     after = before \cup {key}
              /\ (key \notin before /\ Len(cache) = maxSize) =>
                     /\ after = (before \ {cacheLog.used[1]}) \cup {key}
                     /\ Cardinality(after) = maxSize]_vars

\* A set has taken out an entry that was stored later than one it kept: the
\* kept one was used since.
C21_Witness ==
    /\ cacheLog.op = "set"
    /\ Len(cache) = maxSize
    /\ cache[Len(cache)].key = cacheLog.key
    /\ \E e \in cacheLog.removed : e.timestamp > cache[1].timestamp

\* The last n elements of a sequence (all of them if it is shorter).
LastOf(seq, n) == SubSeq(seq, Len(seq) - Min(n, Len(seq)) + 1, Len(seq))

\* C22: the Logger holds at most maxLogs entries, and they are the entries
\* logged last, in the order in which they were logged.
C22_KeepsMostRecent ==
    /\ Len(logs) <= maxLogs
    /\ logs = LastOf(logged, maxLogs)

\* Four entries logged with room for two: the last two are held.
C22_Witness ==
    /\ maxLogs = 2
    /\ Len(logged) = 4
    /\ Len(logs) = 2
    /\ logs[1].level # logs[2].level
    /\ logs[1].level # logged[1].level

\* C23: getRecentLogs(count) returns the lines of the last min(count, number
\* stored) entries in logging order, for every count >= 0.
C23_RecentLogs ==
    [][logOut' # logOut =>
          LET recent == LastOf(logs, logOut'.count)
          IN  logOut'.result = [i \in 1..Len(recent) |-> logLine(recent[i])]]_vars

IsPrefix(p, q) == Len(p) <= Len(q) /\ SubSeq(q, 1, Len(p)) = p

\* Neither path leads through the other.
Unrelated(p, q) == ~IsPrefix(p, q) /\ ~IsPrefix(q, p)

\* C24, before any set: a path of the default configuration reads its default
\* value and a path that does not exist reads undefined.
C24_Defaults ==
    configLog.n = 0 =>
        /\ get_(<<"server", "name">>) = JsValue("typescript-mcp-server")
        /\ get_(<<"non", "existent", "key">>) = JsUndefined
        /\ get_(<<"test", "value">>) = JsUndefined

\* C24, a set: the path set reads the value set, and every unrelated path
\* reads what it read before.
C24_SetStep ==
    (configLog'.op = "set" /\ configLog'.n = configLog.n + 1) =>
        /\ getIn(config', configLog'.path, objectPrototype') =
               JsValue(configLog'.value)
        /\ \A q \in GetPaths :
               Unrelated(configLog'.path, q) =>
                   getIn(config', q, objectPrototype') = get_(q)

\* C24: ConfigManager is a map keyed by paths: get reads the value last set
\* at the path, else the default, else undefined, and a set changes what is
\* read at no unrelated path.
C24_PathKeyedMap == [](C24_Defaults) /\ [][C24_SetStep]_vars

\* The events a stage of the kind writes when it begins.
BeginEvents(kind) ==
    CASE kind = "logging"      -> {"Starting"}
      [] kind = "rateLimit"    -> {"rateLimit:admitted", "rateLimit:rejected"}
      [] kind = "validation"   -> {"validation"}
      [] kind = "shortCircuit" -> {"shortCircuit"}
      [] OTHER                 -> {"repeat"}

\* The events that show stage i beginning, or the terminal handler when the
\* chain has no stage i.
BeginOf(i) ==
    IF i > Len(middlewares) THEN {"handler"} ELSE BeginEvents(middlewares[i])

RepeatAt == CHOOSE i \in 1..Len(middlewares) : middlewares[i] = "repeat"

\* C25: each call of the continuation handed to stage i, the first and the
\* second alike, invokes stage i + 1, or the terminal handler when stage i is
\* the last.
C25_ContinuationInvokesNextStage ==
    \A r \in Slots :
        InUse(r) =>
            LET trace == reqs[r].trace
            IN  \A j \in 1..Len(trace) :
                    trace[j] \in {"repeat", "repeat:again"} =>
                        /\ j < Len(trace)
                        /\ trace[j + 1] \in BeginOf(RepeatAt + 1)

\* The failure the tools/call handler caught for the request, if any: the one
\* the tool operation raised, or the handler's own for a name that is not
\* registered or that the switch does not route.
C26_Caught(q) ==
    CASE q.produced.k = "err" -> q.produced.message
      [] q.produced.k = "ok"  -> <<>>
      [] ~toolsHas(q.name)    -> <<"Tool '", q.name, "' not found">>
      [] OTHER                -> <<"Unknown tool method: ", q.name>>

\* C26: a tools/call that reached the terminal handler ends with a Result and
\* never with a raised failure: the Result the tool operation returned, or,
\* when the operation raised, the name is not registered or the name has no
\* routing, the error Result with the one text part 'Error: ' + message and
\* isError true.
C26_CallEndsWithResult ==
    \A r \in Slots :
        (/\ Done(r)
         /\ reqs[r].method = "tools/call"
         /\ Reached(r, "handler")) =>
            LET q == reqs[r]
            IN  /\ q.out.k = "result"
                /\ q.produced.k = "ok" => q.out.v = q.produced.v
                /\ q.produced.k # "ok" =>
                       q.out.v = [content |-> <<[type |-> "text",
                                                 text |-> <<"Error: ">> \o C26_Caught(q)]>>,
                                  isError |-> TRUE]

\* One call ended after its file operation raised for want of arguments, and
\* another after naming the registered tool that has no routing.
C26_Witness ==
    \E r1 \in Slots, r2 \in Slots :
        /\ Done(r1) /\ Done(r2)
        /\ reqs[r1].name = "read_file" /\ reqs[r1].args = "undefined"
        /\ reqs[r1].produced.k = "err" /\ reqs[r1].out.k = "result"
        /\ reqs[r2].name = "my_tool" /\ toolsHas("my_tool")
        /\ Reached(r2, "handler") /\ reqs[r2].out.k = "result"

RateAt == CHOOSE i \in 1..Len(middlewares) : middlewares[i] = "rateLimit"

\* The positions of the trace after position j that hold an event of es.
After(trace, j, es) == {k \in (j + 1)..Len(trace) : trace[k] \in es}

\* What a later stage, the terminal handler or a tool operation writes.
C27_Beyond ==
    UNION {BeginEvents(k) : k \in StageKinds} \cup
        {"handler", "calculate", "readFile", "writeFile", "listDirectory"}

\* The number of stages from stage i on that are of the kind of stage i, and
\* so begin with the same event; 1 for the terminal handler.
C27_Alike(i) ==
    IF i > Len(middlewares) THEN 1
    ELSE Cardinality({n \in i..Len(middlewares) : middlewares[n] = middlewares[i]})

\* C27: a request the rate-limit stage rejects fails there with 'Rate limit
\* exceeded' and goes no further: no later stage begins, no handler and no tool
\* operation runs, and the stages that await it receive that failure.  A
\* request it admits goes on to the next stage, or to the terminal handler,
\* exactly once.
C27_RejectStopsAdmitContinuesOnce ==
    \A r \in Slots :
        InUse(r) =>
            LET q == reqs[r]
            IN  \A j \in 1..Len(q.trace) :
                    /\ q.trace[j] = "rateLimit:rejected" =>
                           /\ After(q.trace, j, C27_Beyond) = {}
                           /\ "handler" \notin Range(q.trace)
                           /\ q.op = ""
                           /\ q.val = Err(<<"Rate limit exceeded">>)
                    /\ q.trace[j] = "rateLimit:admitted" =>
                           /\ j + 1 \in After(q.trace, j, BeginOf(RateAt + 1))
                           /\ Cardinality(After(q.trace, j, BeginOf(RateAt + 1)))
                                  <= C27_Alike(RateAt + 1)
                           /\ Cardinality(After(q.trace, j, {"handler"})) <= 1

\* Behind a logging stage one request was admitted and went on to the handler,
\* and another was rejected and ended as the failure.
C27_Witness ==
    /\ middlewares = <<"logging", "rateLimit">>
    /\ \E r1 \in Slots, r2 \in Slots :
           /\ Done(r1) /\ Done(r2)
           /\ reqs[r1].trace[2] = "rateLimit:admitted"
           /\ reqs[r1].trace[3] = "handler"
           /\ reqs[r2].trace = <<"Starting", "rateLimit:rejected", "Failed">>
           /\ reqs[r2].out = [k |-> "raised", message |-> <<"Rate limit exceeded">>]

\* C28, events: every logging stage that began wrote its start event before
\* anything its continuation wrote, and has since written one further event
\* or still awaits its continuation.
C28_Events ==
    \A r \in Slots :
        InUse(r) =>
            LET q == reqs[r]
            IN  /\ \A j \in 1..Len(q.trace) :
                       q.trace[j] = "Starting" => j < Len(q.trace)
                /\ Count(q.trace, "Starting") =
                       Count(q.trace, "Completed") + Count(q.trace, "Failed")
                           + Len(q.stack)
                /\ \A j \in 1..Len(q.trace) :
                       q.trace[j] \in {"Completed", "Failed"} =>
                           Count(SubSeq(q.trace, 1, j), "Starting") >=
                               Count(SubSeq(q.trace, 1, j), "Completed")
                                   + Count(SubSeq(q.trace, 1, j), "Failed")

\* C28, settling: when the continuation of a logging stage has settled, the
\* stage writes one event, a completion for a result and a failure for a
\* failure, and settles with the same result or failure.
C28_SettleStep ==
    \A r \in Slots :
        Len(reqs'[r].stack) = Len(reqs[r].stack) - 1 =>
            /\ reqs[r].st = "settled"
            /\ reqs'[r].trace =
                   Append(reqs[r].trace,
                          IF reqs[r].val.k = "ok" THEN "Completed" ELSE "Failed")
            /\ reqs'[r].val = reqs[r].val

\* C28: the logging stage writes a start event before it calls its
\* continuation and exactly one further event once the continuation has
\* settled: a completion, returning the result unchanged, or a failure,
\* raising the same failure again.
C28_LoggingBrackets == [](C28_Events) /\ [][C28_SettleStep]_vars

\* Behind a logging stage one request completed with the handler's result and
\* another failed with the handler's failure.
C28_Witness ==
    /\ middlewares # <<>>
    /\ middlewares[1] = "logging"
    /\ \E r1 \in Slots, r2 \in Slots :
           /\ Done(r1) /\ Done(r2)
           /\ reqs[r1].trace[Len(reqs[r1].trace)] = "Completed"
           /\ reqs[r1].out = [k |-> "result", v |-> reqs[r1].val.v]
           /\ reqs[r2].trace[Len(reqs[r2].trace)] = "Failed"
           /\ reqs[r2].out.k = "raised"

\* C29 as stated: in every state, the states between two checks included, the
\* stored timestamps are as many as the admissions within the trailing window
\* of 60000 ms that ends at the current time.
C29_StoredIsWindowNow ==
    Len(Recorded(requests)) = Cardinality(AdmittedWithin(now))

\* C29 amended: in every state the stored timestamps are as many as the
\* admissions within the trailing window that ends at the time of the latest
\* check, and never fewer than the admissions within the window that ends at
\* the current time; nothing is stored before the first check.
C29_StoredIsWindowAtLastCheck ==
    /\ checks = <<>> => Len(Recorded(requests)) = 0
    /\ checks # <<>> =>
           Len(Recorded(requests)) =
               Cardinality(AdmittedWithin(checks[Len(checks)].time))
    /\ Len(Recorded(requests)) >= Cardinality(AdmittedWithin(now))

\* A check pruned an admission that had left the window and recorded its own;
\* and time has moved on since.
C29_Witness ==
    /\ Len(checks) >= 2
    /\ checks[1].admitted
    /\ checks[Len(checks)].admitted
    /\ checks[Len(checks)].time - checks[1].time >= WindowMs
    /\ Recorded(requests) = <<checks[Len(checks)].time>>

\* The earlier admissions that check k counts when it counts those made at
\* most WindowMs before it.
C30_Counted(k) ==
    {i \in 1..(k - 1) :
        checks[i].admitted /\ checks[k].time - checks[i].time <= WindowMs}

\* C30: a check counts the earlier admissions made at most 60000 ms before
\* it, the one made exactly 60000 ms before it included, and admits exactly
\* when they are fewer than the ceiling.
C30_BoundaryAdmissionCounts ==
    \A k \in 1..Len(checks) :
        checks[k].admitted <=> Cardinality(C30_Counted(k)) < requestsPerMinute

\* C31: a call of getHealthStatus, with the sampler stopped or running,
\* returns the snapshot of the heap as it is at the call and changes neither
\* the stored handle nor the timers.
C31_SampleIsFreshAndFrameless ==
    [][(/\ Len(health') = Len(health) + 1
        /\ health'[Len(health')].op = "sample") =>
           /\ health'[Len(health')].snapshot.status =
                  (IF heapUsed < memoryThreshold THEN "healthy" ELSE "unhealthy")
           /\ ~health'[Len(health')].raised
           /\ UNCHANGED <<healthCheckInterval, timers, nextTimer>>]_vars

\* A snapshot was taken before any start, and another while the timer runs,
\* healthy although the tick before it had found the heap unhealthy.
C31_Witness ==
    /\ Len(health) >= 4
    /\ health[1].op = "sample"
    /\ health[2].op = "start"
    /\ health[3].op = "tick" /\ health[3].status = "unhealthy"
    /\ health[4].op = "sample" /\ health[4].snapshot.status = "healthy"
    /\ timers # {}

\* C32: a tick of a running timer computes the snapshot of the heap as it is;
\* an unhealthy one is warned about and, exactly when the runtime exposes
\* global.gc, followed by a collection; a healthy one changes nothing; and no
\* tick raises, clears a timer or touches the stored handle.
C32_TickStep ==
    [][(/\ Len(health') = Len(health) + 1
        /\ health'[Len(health')].op = "tick") =>
           LET e == health'[Len(health')]
               unhealthy == heapUsed >= memoryThreshold
           IN  /\ e.snapshot.status = (IF unhealthy THEN "unhealthy" ELSE "healthy")
               /\ e.warned <=> unhealthy
               /\ e.gc <=> (unhealthy /\ globalGc)
               /\ ~e.raised
               /\ ~e.gc => heapUsed' = heapUsed
               /\ timers # {}
               /\ UNCHANGED <<healthCheckInterval, timers, nextTimer, globalGc>>]_vars

\* One tick found the heap unhealthy, warned and collected, and a later tick
\* of the same timer found it healthy.
C32_Witness ==
    /\ timers # {}
    /\ \E i \in 1..Len(health), j \in 1..Len(health) :
           /\ i < j
           /\ health[i].op = "tick" /\ health[i].warned /\ health[i].gc
           /\ health[j].op = "tick" /\ ~health[j].warned

RegisteredNames == {tools[i].name : i \in 1..Len(tools)}

\* C33, registry: the registered names are 'calculate' or not, and the three
\* file names together or none of them, each once; the resources are the
\* three sample resources.
C33_Families ==
    /\ RegisteredNames \subseteq FileNames \cup {"calculate"}
    /\ Cardinality(RegisteredNames) = Len(tools)
    /\ \A n \in FileNames, m \in FileNames :
           n \in RegisteredNames <=> m \in RegisteredNames
    /\ resources = initializeResources

\* C33, calls: a call of a name of a family that is not registered, once it
\* has reached the handler, is answered with the not-found error Result.
C33_DisabledIsNotFound ==
    \A r \in Slots :
        (/\ Done(r)
         /\ reqs[r].method = "tools/call"
         /\ reqs[r].name \in (FileNames \cup {"calculate"}) \ RegisteredNames
         /\ Reached(r, "handler")) =>
            /\ reqs[r].op = ""
            /\ reqs[r].out =
                   [k |-> "result",
                    v |-> ToolResult(<<"Error: ", "Tool '", reqs[r].name,
                                       "' not found">>, TRUE)]

\* C33: the registry holds whole tool families as enabled at construction,
\* no request changes the registry or the resources, and a call of a name of
\* a disabled family gets the not-found error Result.
C33_RegistryFixed ==
    /\ [](C33_Families /\ C33_DisabledIsNotFound)
    /\ [][tools' = tools /\ resources' = resources]_vars

\* With the file manager disabled and the calculator enabled, read_file was
\* called and answered not found while calculate was served.
C33_Witness ==
    /\ RegisteredNames = {"calculate"}
    /\ \E r1 \in Slots, r2 \in Slots :
           /\ Done(r1) /\ reqs[r1].name = "read_file"
           /\ Reached(r1, "handler") /\ IsErrorResult(reqs[r1].out)
           /\ Done(r2) /\ reqs[r2].name = "calculate"
           /\ reqs[r2].op = "calculate"

\* C34: the cursor of a request counts the stages that have begun for that
\* request alone; a request none of whose stages returned or failed without
\* its continuation has passed every registered stage once, in registration
\* order, and then its terminal handler once, whatever other requests are in
\* flight.
C34_OwnCursor ==
    \A r \in Slots :
        InUse(r) =>
            LET q == reqs[r]
                se == StageEvents(q.trace)
            IN  /\ q.index = Len(se)
                /\ (\A i \in 1..Len(se) : ~Cut(q, se[i])) =>
                       /\ Len(se) = Len(middlewares)
                       /\ \A i \in 1..Len(se) :
                              /\ q.trace[i] = se[i]
                              /\ se[i] \in BeginEvents(middlewares[i])
                       /\ Len(q.trace) > Len(se)
                       /\ q.trace[Len(se) + 1] = "handler"
                       /\ Count(q.trace, "handler") = 1

\* Two requests are in flight at once, each awaiting its tool after it has
\* passed the two stages.
C34_Witness ==
    /\ Len(middlewares) = 2
    /\ \E r1 \in Slots, r2 \in Slots :
           /\ r1 # r2
           /\ reqs[r1].st = "awaitTool" /\ reqs[r2].st = "awaitTool"
           /\ reqs[r1].index = 2 /\ reqs[r2].index = 2
           /\ Len(StageEvents(reqs[r1].trace)) = 2
           /\ Len(StageEvents(reqs[r2].trace)) = 2

\* The times of the admissions that the latest check found in its window, in
\* the order of the checks.
C35_Kept ==
    LET last == checks[Len(checks)].time
        kept == SelectSeq(checks, LAMBDA c : c.admitted /\ c.time > last - WindowMs)
    IN  [i \in 1..Len(kept) |-> kept[i].time]

\* C35: the requests of the four methods are counted in one window: at every
\* admission the admissions of all methods within the trailing 60000 ms are
\* at most the ceiling; and the timestamp of an admission stays recorded,
\* whatever becomes of the request, until a check finds it outside its window.
C35_OneWindowForAllMethods ==
    /\ \A k \in 1..Len(checks) :
           checks[k].admitted =>
               Cardinality(AdmittedWithin(checks[k].time)) <= requestsPerMinute
    /\ IF checks = <<>>
       THEN requests = [c \in {} |-> <<>>]
       ELSE DOMAIN requests = {clientId} /\ requests[clientId] = C35_Kept

\* With ceiling 1 a read of a missing resource was admitted and has failed,
\* its timestamp is still recorded, and a request of another method was
\* rejected on its account.
C35_Witness ==
    /\ requestsPerMinute = 1
    /\ \E r1 \in Slots, r2 \in Slots :
           /\ Done(r1) /\ reqs[r1].method = "resources/read"
           /\ Reached(r1, "rateLimit:admitted") /\ reqs[r1].out.k = "raised"
           /\ Done(r2) /\ reqs[r2].method = "tools/list"
           /\ Reached(r2, "rateLimit:rejected")
           /\ Len(Recorded(requests)) = 1

\* C36: a tools/call that reached its handler is never seen as failed by the
\* logging stage, and once it has ended it was seen as completed, also when
\* the name was not found or the tool operation raised; the logging stage
\* writes its failure event only for a request a stage rejected or a request
\* of another method whose handler failed.
C36_CallCompletesForLogging ==
    \A r \in Slots :
        InUse(r) =>
            LET q == reqs[r]
            IN  /\ (q.method = "tools/call" /\ Reached(r, "handler")) =>
                       /\ Count(q.trace, "Failed") = 0
                       /\ Done(r) =>
                              /\ q.trace[Len(q.trace)] = "Completed"
                              /\ Count(q.trace, "Completed") = 1
                /\ Reached(r, "Failed") =>
                       \/ Reached(r, "rateLimit:rejected")
                       \/ q.method # "tools/call" /\ Reached(r, "handler")

\* A call whose file operation raised was logged as completed with an error
\* Result, and a read of a missing resource was logged as failed.
C36_Witness ==
    \E r1 \in Slots, r2 \in Slots :
        /\ Done(r1) /\ reqs[r1].method = "tools/call"
        /\ reqs[r1].produced.k = "err"
        /\ Reached(r1, "Completed") /\ IsErrorResult(reqs[r1].out)
        /\ Done(r2) /\ reqs[r2].method = "resources/read"
        /\ Reached(r2, "handler") /\ Reached(r2, "Failed")

\* A get or a has of a cached key has just returned.
C37_LookupStep ==
    /\ cacheLog'.op \in {"get", "has"}
    /\ now' = now
    /\ mapHas(cache, cacheLog'.key)

\* C37: a get or a has of an entry set more than ttl ago reports the key
\* absent and removes the entry; of a younger entry, get returns its value and
\* moves it to the most recently used end with the time of its set unchanged,
\* and has answers true and changes nothing; only set gives an entry a new time.
C37_NeverReturnsExpired ==
    /\ [][C37_LookupStep =>
             LET key == cacheLog'.key
                 item == mapGet(cache, key)
                 absent == IF cacheLog'.op = "get" THEN [k |-> "undefined"]
                           ELSE [k |-> "boolean", v |-> FALSE]
             IN  IF now - item.timestamp > ttl
                 THEN /\ cacheLog'.result = absent
                      /\ ~mapHas(cache', key)
                 ELSE IF cacheLog'.op = "get"
                 THEN /\ cacheLog'.result = [k |-> "value", v |-> item.value]
                      /\ cache'[Len(cache')] = item
                 ELSE /\ cacheLog'.result = [k |-> "boolean", v |-> TRUE]
                      /\ cache' = cache]_vars
    /\ [][\A e \in Range(cache') :
             \/ e \in Range(cache)
             \/ cacheLog'.op = "set" /\ cacheLog'.key = e.key
                    /\ e.timestamp = now]_vars

\* A get has just removed an entry set more than ttl ago and answered
\* undefined, while a younger entry stays cached.
C37_Witness ==
    /\ cacheLog.op = "get"
    /\ cacheLog.result = [k |-> "undefined"]
    /\ \E e \in cacheLog.removed :
           e.key = cacheLog.key /\ now - e.timestamp > ttl
    /\ cache # <<>>

\* C38: every snapshot, taken by a call or by a tick, carries the tool flags
\* calculator = true and fileManager = true, whichever tools are registered.
C38_ToolFlagsAlwaysTrue ==
    \A i \in 1..Len(health) :
        health[i].op \in {"sample", "tick"} =>
            /\ health[i].snapshot.tools.calculator = TRUE
            /\ health[i].snapshot.tools.fileManager = TRUE

\* No tool is registered, and a call and a tick have each taken a snapshot.
C38_Witness ==
    /\ tools = <<>>
    /\ \E i \in 1..Len(health), j \in 1..Len(health) :
           /\ health[i].op = "sample" /\ health[i].snapshot.tools.calculator
           /\ health[j].op = "tick" /\ health[j].snapshot.tools.fileManager

\* C39: a request that enters the authentication stage fails there with
\* 'Unauthorized: Invalid API key', and the continuation is not called,
\* exactly when the stage was built with an API key, MCP_API_KEY is defined
\* and the two differ; otherwise the continuation is called and the request
\* reaches its handler.
C39_RejectsExactlyOnMismatch ==
    [][\A r \in Slots :
           (~InUse(r) /\ InUse(r)') =>
               LET q == reqs'[r]
                   differ == /\ apiKey # NoKey
                             /\ MCP_API_KEY # NoKey
                             /\ apiKey # MCP_API_KEY
               IN  IF differ
                   THEN /\ Count(q.trace, "authentication:rejected") = 1
                        /\ Count(q.trace, "authentication:passed") = 0
                        /\ Count(q.trace, "handler") = 0
                        /\ q.val.k = "err"
                        /\ q.val.message = <<"Unauthorized: Invalid API key">>
                   ELSE /\ Count(q.trace, "authentication:passed") = 1
                        /\ Count(q.trace, "authentication:rejected") = 0
                        /\ Count(q.trace, "handler") = 1]_vars

\* The same, where a key or a variable that is the empty string counts as
\* absent, as the stage's test of truthiness has it.
C39_RejectsOnTruthyMismatch ==
    [][\A r \in Slots :
           (~InUse(r) /\ InUse(r)') =>
               LET q == reqs'[r]
                   differ == /\ truthy(apiKey)
                             /\ truthy(MCP_API_KEY)
                             /\ apiKey # MCP_API_KEY
               IN  IF differ
                   THEN /\ Count(q.trace, "authentication:rejected") = 1
                        /\ Count(q.trace, "handler") = 0
                        /\ q.val.k = "err"
                   ELSE /\ Count(q.trace, "authentication:passed") = 1
                        /\ Count(q.trace, "handler") = 1]_vars

\* C11: a process that has exited through the shutdown path (a SIGINT or
\* SIGTERM handler) has stopped the health checker before: no interval timer
\* of the checker is active at the exit.
C11_SamplerStoppedBeforeExit ==
    (proc.st = "exited" /\ proc.signal \in Signals) => timers = {}

\* A getHealthStatus or isHealthy call has just returned.
C12_StatusStep ==
    /\ Len(health') = Len(health) + 1
    /\ health'[Len(health')].op \in {"sample", "tick", "isHealthy"}

C12_Answer(e, healthy) ==
    IF e.op = "isHealthy"
    THEN e.status = (IF healthy THEN "true" ELSE "false")
    ELSE e.status = (IF healthy THEN "healthy" ELSE "unhealthy")

\* C12: a status computed while heapUsed is above the threshold is
\* 'unhealthy' and one computed while it is below is 'healthy', whatever was
\* computed before; isHealthy() answers the same.
C12_StatusFollowsHeap ==
    [][C12_StatusStep =>
          /\ heapUsed > memoryThreshold => C12_Answer(health'[Len(health')], FALSE)
          /\ heapUsed < memoryThreshold => C12_Answer(health'[Len(health')], TRUE)]_vars

\* Unhealthy above the threshold, then healthy again below it.
C12_Witness ==
    /\ heapUsed = memoryThreshold - 1
    /\ \E i \in 1..Len(health) :
           /\ i + 2 <= Len(health)
           /\ health[i].op = "sample" /\ health[i].status = "unhealthy"
           /\ health[i + 1].op = "sample" /\ health[i + 1].status = "healthy"
           /\ health[i + 2].op = "isHealthy" /\ health[i + 2].status = "true"

====
